---- MODULE Spec2Model ----
(***************************************************************************)
(* Resumable batch download engine of channel_plus: the integrity          *)
(* validator, the resume ledger, the reconciler (partition), the transfer  *)
(* client (bounded retries, chunked streaming, cleanup) and the batch      *)
(* orchestrator (admission gate, per-item ledger persistence).             *)
(***************************************************************************)
EXTENDS Integers, Sequences, FiniteSets, TLC

\* ------------------------------------------------------------------------
\* Bounds of the model
\* ------------------------------------------------------------------------
\* longest episode list given to partition alone
MaxEpisodes == 5
\* longest episode list given to a batch
MaxBatch == 3
\* largest concurrency limit a batch is configured with
MaxConcurrent == 2
\* largest retry_attempts a single transfer is configured with
MaxRetries == 3
\* longest episode list of a batch that is followed by retry rounds
MaxRetryBatch == 2
\* largest max_retries given to retry_failed_downloads
MaxRounds == 2
\* largest episode number given to a DownloadConfig
MaxEpisodeNumber == 25
\* largest episode number asked of the scraper
MaxScrapeEpisode == 12
\* largest retry_attempts the command line accepts
MaxAttemptCount == 10
\* episodes of a batch that runs beside the material downloads
MaxGateEpisodes == 3
\* course materials downloaded beside a batch
MaxMaterials == 3

\* ------------------------------------------------------------------------
\* Program constants
\* ------------------------------------------------------------------------
min_file_size == 1024
ChunkSize == 8192
HeaderLen == 10
DEFAULT_RETRY_ATTEMPTS == 3
MaxAllowedConcurrent == 10
EpisodesPerPage == 10
BackoffCap == 30
MaterialLimit == 3
MinClientLimit == 5

\* ------------------------------------------------------------------------
\* Files: a file is its size and its first HeaderLen bytes
\* ------------------------------------------------------------------------
NoFile == [size |-> -1, head |-> <<>>]

Min(a, b) == IF a < b THEN a ELSE b
Max(a, b) == IF a < b THEN b ELSE a

\* the first bytes of a file of `size` bytes that starts with `prefix` and
\* goes on with zero bytes
HeadOf(prefix, size) ==
    [k \in 1..Min(size, HeaderLen) |-> IF k <= Len(prefix) THEN prefix[k] ELSE 0]

MkFile(prefix, size) == [size |-> size, head |-> HeadOf(prefix, size)]

\* b'ID3', b'\xff\xfb', an m4a file (size box, then b'ftyp'), an HTML page,
\* a RIFF/WAVE file
BytesID3 == <<73, 68, 51>>
BytesSync == <<255, 251>>
BytesFtyp == <<102, 116, 121, 112>>
BytesM4A == <<0, 0, 0, 32>> \o BytesFtyp
BytesHtml == <<60, 104, 116, 109, 108>>
BytesRiff == <<82, 73, 70, 70>>

StartsWith(s, p) == Len(s) >= Len(p) /\ SubSeq(s, 1, Len(p)) = p
Contains(s, p) ==
    \E k \in 1..Len(s) : k + Len(p) - 1 <= Len(s) /\ SubSeq(s, k, k + Len(p) - 1) = p

\* File names: a name is a number; its suffix is what Path.suffix returns
Suffix(name) ==
    CASE name = 2 -> ".wav"
      [] name = 3 -> ".pdf"
      [] name = 4 -> ".MP3"
      [] name = 5 -> ".m4a"
      [] OTHER -> ".mp3"

Lower(s) == IF s = ".MP3" THEN ".mp3" ELSE s

AudioSuffixes == {".mp3", ".wav", ".m4a"}

Exists(fs, name) == fs[name] # NoFile

\* ------------------------------------------------------------------------
\* Integrity validator
\* ------------------------------------------------------------------------
\* file names whose open(file_path, 'rb') raises
VARIABLE unreadable

\* is_file_complete without the size gate
is_file_complete_nosize(fs, name) ==
    /\ Exists(fs, name)
    /\ (Lower(Suffix(name)) \in AudioSuffixes =>
            /\ name \notin unreadable
            /\ \/ StartsWith(fs[name].head, BytesID3)
               \/ StartsWith(fs[name].head, BytesSync)
               \/ Contains(fs[name].head, BytesFtyp))

\* is_file_complete with the size gate for audio files alone
is_file_complete_audio_gate(fs, name) ==
    /\ Exists(fs, name)
    /\ (Lower(Suffix(name)) \in AudioSuffixes =>
            /\ ~(fs[name].size < min_file_size)
            /\ name \notin unreadable
            /\ \/ StartsWith(fs[name].head, BytesID3)
               \/ StartsWith(fs[name].head, BytesSync)
               \/ Contains(fs[name].head, BytesFtyp))

\* is_file_complete that knows the RIFF signature of .wav files
is_file_complete_riff(fs, name) ==
    /\ Exists(fs, name)
    /\ ~(fs[name].size < min_file_size)
    /\ (Lower(Suffix(name)) \in AudioSuffixes =>
            /\ name \notin unreadable
            /\ \/ StartsWith(fs[name].head, BytesID3)
               \/ StartsWith(fs[name].head, BytesSync)
               \/ Contains(fs[name].head, BytesFtyp)
               \/ StartsWith(fs[name].head, BytesRiff))

is_file_complete(fs, name) ==
    /\ Exists(fs, name)
    /\ ~(fs[name].size < min_file_size)
    /\ (Lower(Suffix(name)) \in AudioSuffixes =>
            /\ name \notin unreadable
            /\ \/ StartsWith(fs[name].head, BytesID3)
               \/ StartsWith(fs[name].head, BytesSync)
               \/ Contains(fs[name].head, BytesFtyp))

\* ------------------------------------------------------------------------
\* Resume ledger: the file is missing, unparsable, or a JSON document with
\* the list completed_files (a list of file names, unless someone else
\* wrote the file)
\* ------------------------------------------------------------------------
NoLedger == [kind |-> "missing", completed_files |-> <<>>]
BadLedger == [kind |-> "truncated", completed_files |-> <<>>]
LedgerDoc(list) == [kind |-> "json", completed_files |-> list]
\* a JSON document whose completed_files list holds a list or an object
NestedLedger == [kind |-> "nested", completed_files |-> <<>>]

\* set(resume_state.get('completed_files', [])) raises TypeError (unhashable)
SetRaises(file) == file.kind = "nested"

ListToSet(list) == {list[k] : k \in 1..Len(list)}

RECURSIVE SetToList(_)
SetToList(S) ==
    IF S = {} THEN <<>>
    ELSE LET m == CHOOSE x \in S : \A y \in S : x <= y
         IN  <<m>> \o SetToList(S \ {m})

\* a load that returns the first entry alone
load_first_only(file) ==
    IF file.kind = "json" THEN SubSeq(file.completed_files, 1, 1) ELSE <<>>

load_resume_state(file) ==
    IF file.kind = "json" THEN file.completed_files ELSE <<>>

\* ------------------------------------------------------------------------
\* Reconciler: filter_episodes_for_download
\* ------------------------------------------------------------------------
\* the loop body that leaves an invalid file where it is
FilterOneKeep(acc, eps, p, ledgered, undeletable) ==
    LET name == eps[p] IN
    IF name \in ledgered /\ is_file_complete(acc.fs, name)
    THEN [acc EXCEPT !.existing = Append(@, p),
                     !.completed_files = @ \cup {name}]
    ELSE IF Exists(acc.fs, name)
    THEN IF is_file_complete(acc.fs, name)
         THEN [acc EXCEPT !.existing = Append(@, p),
                          !.completed_files = @ \cup {name}]
         ELSE [acc EXCEPT !.invalid = Append(@, p),
                          !.to_download = Append(@, p)]
    ELSE [acc EXCEPT !.to_download = Append(@, p)]

\* the loop body that takes the ledger's word for a listed file
FilterOneTrusting(acc, eps, p, ledgered, undeletable) ==
    LET name == eps[p] IN
    IF name \in ledgered
    THEN [acc EXCEPT !.existing = Append(@, p),
                     !.completed_files = @ \cup {name}]
    ELSE IF Exists(acc.fs, name)
    THEN IF is_file_complete(acc.fs, name)
         THEN [acc EXCEPT !.existing = Append(@, p),
                          !.completed_files = @ \cup {name}]
         ELSE [acc EXCEPT !.invalid = Append(@, p),
                          !.fs = IF name \in undeletable THEN @
                                 ELSE [@ EXCEPT ![name] = NoFile],
                          !.to_download = Append(@, p)]
    ELSE [acc EXCEPT !.to_download = Append(@, p)]

\* the loop body that puts the episode at the front of its list
FilterOnePrepend(acc, eps, p, ledgered, undeletable) ==
    LET name == eps[p] IN
    IF name \in ledgered /\ is_file_complete(acc.fs, name)
    THEN [acc EXCEPT !.existing = <<p>> \o @,
                     !.completed_files = @ \cup {name}]
    ELSE IF Exists(acc.fs, name)
    THEN IF is_file_complete(acc.fs, name)
         THEN [acc EXCEPT !.existing = <<p>> \o @,
                          !.completed_files = @ \cup {name}]
         ELSE [acc EXCEPT !.invalid = <<p>> \o @,
                          !.fs = IF name \in undeletable THEN @
                                 ELSE [@ EXCEPT ![name] = NoFile],
                          !.to_download = <<p>> \o @]
    ELSE [acc EXCEPT !.to_download = <<p>> \o @]

\* the loop body for the episode at position p of eps; acc carries the
\* lists built so far, the file system and the in-memory completed set
FilterOne(acc, eps, p, ledgered, undeletable) ==
    LET name == eps[p] IN
    IF name \in ledgered /\ is_file_complete(acc.fs, name)
    THEN [acc EXCEPT !.existing = Append(@, p),
                     !.completed_files = @ \cup {name}]
    ELSE IF Exists(acc.fs, name)
    THEN IF is_file_complete(acc.fs, name)
         THEN [acc EXCEPT !.existing = Append(@, p),
                          !.completed_files = @ \cup {name}]
         ELSE [acc EXCEPT !.invalid = Append(@, p),
                          !.fs = IF name \in undeletable THEN @
                                 ELSE [@ EXCEPT ![name] = NoFile],
                          !.to_download = Append(@, p)]
    ELSE [acc EXCEPT !.to_download = Append(@, p)]

RECURSIVE FilterLoop(_, _, _, _, _)
FilterLoop(acc, eps, p, ledgered, undeletable) ==
    IF p > Len(eps) THEN acc
    ELSE FilterLoop(FilterOne(acc, eps, p, ledgered, undeletable),
                    eps, p + 1, ledgered, undeletable)

\* partition that skips the force branch
filter_noforce(eps, force, files, ledger, completed, undeletable) ==
    FilterLoop([to_download |-> <<>>, existing |-> <<>>, invalid |-> <<>>,
                fs |-> files, completed_files |-> completed],
               eps, 1, ListToSet(load_resume_state(ledger)), undeletable)

\* partition that trusts the ledger alone for what exists
filter_ledger_only(eps, force, files, ledger, completed, undeletable) ==
    LET led == ListToSet(load_resume_state(ledger))
        idx == [k \in 1..Len(eps) |-> k]
        In(k) == eps[k] \in led
        Out(k) == eps[k] \notin led
    IN  [to_download |-> SelectSeq(idx, Out), existing |-> SelectSeq(idx, In),
         invalid |-> <<>>, fs |-> files,
         completed_files |-> completed \cup {eps[k] : k \in {j \in 1..Len(eps) : In(j)}}]

\* partition that hands every episode to the downloader, classified or not
filter_requeue_existing(eps, force, files, ledger, completed, undeletable) ==
    LET r == FilterLoop([to_download |-> <<>>, existing |-> <<>>, invalid |-> <<>>,
                         fs |-> files, completed_files |-> completed],
                        eps, 1, ListToSet(load_resume_state(ledger)), undeletable)
    IN  [r EXCEPT !.to_download = [k \in 1..Len(eps) |-> k]]

filter_episodes_for_download(eps, force, files, ledger, completed, undeletable) ==
    IF force
    THEN [to_download |-> [k \in 1..Len(eps) |-> k], existing |-> <<>>,
          invalid |-> <<>>, fs |-> files, completed_files |-> completed]
    ELSE FilterLoop([to_download |-> <<>>, existing |-> <<>>, invalid |-> <<>>,
                     fs |-> files, completed_files |-> completed],
                    eps, 1, ListToSet(load_resume_state(ledger)), undeletable)

\* ------------------------------------------------------------------------
\* State
\* ------------------------------------------------------------------------
VARIABLES
    episodes,               \* the episode list: position = part, value = file name
    retry_attempts,         \* ChannelPlusHTTPClient.retry_attempts
    concurrent_downloads,   \* DownloadConfig.concurrent_downloads
    server,                 \* per part: the responses and the body the server gives
    undeletable,            \* file names whose unlink raises
    max_retries,            \* retry_failed_downloads(max_retries)
    start_episode,          \* DownloadConfig.start_episode
    final_episode,          \* DownloadConfig.final_episode
    cli_force_redownload,   \* --force-redownload was given to main
    cli_clean_resume,       \* --clean-resume was given to main
    shown,                  \* the totals and pages main displays for the configuration
    site,                   \* what the course site answers for each page number
    page_num,               \* get_all_episodes: the page the walk is at (0: not started)
    all_episodes,           \* get_all_episodes: the parts collected, then the result
    holders,                \* the tasks inside `async with self._semaphore` of the client
    materials,              \* what the server answers for each course material
    material_permits,       \* value of download_course_materials' semaphore
    mpc,                    \* per material: "none", "queued", "request", "backoff",
                            \* "reading", "done", "failed"
    mattempts,              \* per material: requests made
    fs,                     \* the download directory: file name -> file
    ledger,                 \* .channel_plus_resume.json
    force,                  \* force_redownload of the batch call in progress
    completed_files,        \* ChannelPlusDownloader.completed_files
    successful_downloads,   \* lists of parts
    failed_downloads,
    skipped_downloads,
    to_download,            \* the result of the last partition
    existing,
    invalid,
    pc,                     \* per part: where its download task is
    attempts,               \* per part: requests made by _make_request_with_retry
    written,                \* per part: chunks written by download_file
    detached,               \* per part: its open file was unlinked under it
    permits,                \* value of the batch's asyncio.Semaphore
    phase,                  \* "config", "rejected", "options", "clean", "idle", "running", "done",
                            \* "crashed", "interrupted", "aborted"
    run,                    \* "first", or how the process before this one ended
    last_save,              \* outcome of the last save_resume_state
    fetched,                \* parts whose fetch returned true in an earlier process
    interrupted,            \* parts whose file was being written when a process stopped
    retry_episodes,         \* retry_failed_downloads: the local list of parts
    rounds,                 \* retry_failed_downloads: loop iterations begun
    retry_pc                \* retry_failed_downloads: "none", "loop", "batch", "returned"

vars == <<episodes, retry_attempts, concurrent_downloads, server, undeletable,
          fs, ledger, force, completed_files, successful_downloads,
          failed_downloads, skipped_downloads, to_download, existing, invalid,
          pc, attempts, written, detached, permits, phase, run, last_save,
          fetched, unreadable, max_retries, retry_episodes, rounds, retry_pc,
          start_episode, final_episode, cli_force_redownload, cli_clean_resume,
          interrupted, shown, site, page_num, all_episodes, holders,
          materials, material_permits, mpc, mattempts>>

scrape == <<site, page_num, all_episodes>>
gates == <<holders, materials, material_permits, mpc, mattempts>>
env == <<episodes, retry_attempts, concurrent_downloads, server, undeletable,
         unreadable, max_retries, start_episode, final_episode,
         cli_force_redownload, cli_clean_resume, shown, scrape, gates>>
retry == <<retry_episodes, rounds, retry_pc>>
config == <<episodes, retry_attempts, concurrent_downloads, undeletable,
            unreadable, max_retries, start_episode, final_episode,
            cli_force_redownload, cli_clean_resume, shown, scrape, gates>>
lists == <<successful_downloads, failed_downloads, skipped_downloads>>
partition == <<to_download, existing, invalid>>

Names == 1..MaxEpisodes
Parts == 1..Len(episodes)

\* ------------------------------------------------------------------------
\* Transfer client: responses, bodies, writes
\* ------------------------------------------------------------------------
\* an attempt ends in an HTTP status, in aiohttp.ClientError (0) or in
\* asyncio.TimeoutError (-1)
ConnError == 0
TimedOut == -1
RetryStatuses == {429, 502, 503, 504}

\* response.raise_for_status() raises ClientResponseError for these
RaisesForStatus(status) == status >= 400

NumChunks(body) == (body.size + ChunkSize - 1) \div ChunkSize
ChunkLen(body, k) == Min(ChunkSize, body.size - (k - 1) * ChunkSize)

\* f.write of `len` bytes at offset `off`; the bytes written start with prefix
WriteAt(file, off, len, prefix) ==
    LET size == Max(file.size, off + len)
        new == HeadOf(prefix, len)
    IN  [size |-> size,
         head |-> [k \in 1..Min(size, HeaderLen) |->
                     IF off = 0 /\ k <= Len(new) THEN new[k]
                     ELSE IF k <= Len(file.head) THEN file.head[k]
                     ELSE 0]]

InFlight == {p \in Parts : pc[p] \in {"request", "backoff", "streaming"}}
Terminal == {"completed", "failed", "skipped"}

\* ------------------------------------------------------------------------
\* Resume ledger: save_resume_state(list(self.completed_files))
\* ------------------------------------------------------------------------
\* what the write leaves on disk: "ok" the new document, "open_failed" the
\* old file (open raised), "dump_failed" a truncated document (open
\* truncated the file, json.dump raised or the process died)
SaveOutcomes == {"ok", "open_failed", "dump_failed"}

\* a save that writes the just finished file alone
save_only_new(old, completed, name, outcome) ==
    CASE outcome = "ok" -> LedgerDoc(<<name>>)
      [] outcome = "open_failed" -> old
      [] OTHER -> BadLedger

save_resume_state(old, completed, name, outcome) ==
    CASE outcome = "ok" -> LedgerDoc(SetToList(completed))
      [] outcome = "open_failed" -> old
      [] OTHER -> BadLedger

\* ------------------------------------------------------------------------
\* Batch orchestrator: download_episodes_batch up to asyncio.gather
\* ------------------------------------------------------------------------
StartBatch ==
    /\ phase = "idle"
    /\ IF ~force /\ SetRaises(ledger)
       THEN /\ phase' = "aborted"
            /\ UNCHANGED <<fs, completed_files, skipped_downloads, partition, pc,
                           permits, attempts, written, detached>>
       ELSE /\ LET r == filter_episodes_for_download(episodes, force, fs, ledger,
                                                     completed_files, undeletable)
               IN  /\ to_download' = r.to_download
                   /\ existing' = r.existing
                   /\ invalid' = r.invalid
                   /\ fs' = r.fs
                   /\ completed_files' = r.completed_files
                   /\ skipped_downloads' = skipped_downloads \o r.existing
                   /\ pc' = [p \in Parts |->
                               IF p \in ListToSet(r.to_download)
                               THEN "queued" ELSE "none"]
                   /\ phase' = IF r.to_download = <<>> THEN "done" ELSE "running"
            /\ permits' = concurrent_downloads
            /\ attempts' = [p \in Parts |-> 0]
            /\ written' = [p \in Parts |-> 0]
            /\ detached' = [p \in Parts |-> FALSE]
    /\ UNCHANGED <<env, retry, ledger, force, successful_downloads, failed_downloads,
                   run, last_save, fetched, interrupted>>

\* ------------------------------------------------------------------------
\* download_with_semaphore / download_episode / download_file, per task
\* ------------------------------------------------------------------------
\* the admission gate lets every task in
CanAcquireAlways == TRUE

\* asyncio.Semaphore.acquire returns at once iff the value is positive
CanAcquire == permits > 0

\* download_file's except branch: if file_path.exists(): file_path.unlink()
\* (an unlink that raises leaves the file where it is)
Cleanup(name) ==
    IF Exists(fs, name) /\ name \notin undeletable
    THEN [fs EXCEPT ![name] = NoFile]
    ELSE fs

\* a failure that keeps the semaphore
FailKeepsPermit(p) ==
    /\ fs' = Cleanup(episodes[p])
    /\ failed_downloads' = Append(failed_downloads, p)
    /\ pc' = [pc EXCEPT ![p] = "failed"]
    /\ UNCHANGED <<ledger, completed_files, successful_downloads,
                   skipped_downloads, last_save, written, detached, permits>>

\* a failure that is recorded nowhere
FailUnrecorded(p) ==
    /\ fs' = Cleanup(episodes[p])
    /\ pc' = [pc EXCEPT ![p] = "failed"]
    /\ permits' = permits + 1
    /\ UNCHANGED <<ledger, completed_files, successful_downloads, failed_downloads,
                   skipped_downloads, last_save, written, detached>>

\* the transfer of part p has failed: cleanup, failed_downloads.append,
\* the semaphore is released
Fail(p) ==
    /\ fs' = Cleanup(episodes[p])
    /\ detached' = [q \in Parts |->
                      IF /\ q # p
                         /\ pc[q] = "streaming"
                         /\ episodes[q] = episodes[p]
                         /\ fs'[episodes[p]] = NoFile
                         /\ fs[episodes[p]] # NoFile
                      THEN TRUE ELSE detached[q]]
    /\ failed_downloads' = Append(failed_downloads, p)
    /\ pc' = [pc EXCEPT ![p] = "failed"]
    /\ permits' = permits + 1
    /\ UNCHANGED <<ledger, completed_files, successful_downloads,
                   skipped_downloads, last_save, written>>

\* async with semaphore, then download_episode up to the first request
Acquire(p) ==
    /\ phase = "running"
    /\ pc[p] = "queued"
    /\ CanAcquire
    /\ IF ~force /\ is_file_complete(fs, episodes[p])
       THEN /\ pc' = [pc EXCEPT ![p] = "skipped"]
            /\ skipped_downloads' = Append(skipped_downloads, p)
            /\ completed_files' = completed_files \cup {episodes[p]}
            /\ UNCHANGED permits
       ELSE /\ pc' = [pc EXCEPT ![p] = "request"]
            /\ permits' = permits - 1
            /\ UNCHANGED <<skipped_downloads, completed_files>>
    /\ UNCHANGED <<env, retry, fs, ledger, force, successful_downloads, failed_downloads,
                   partition, attempts, written, detached, phase, run,
                   last_save, fetched, interrupted>>

\* a loop that runs one iteration more than configured
RangeHasNextOff(n) == n <= retry_attempts

\* for attempt in range(self.retry_attempts): after n iterations another is left
RangeHasNext(n) == n < retry_attempts

\* if attempt < self.retry_attempts - 1, for the attempt in flight
MayRetry(p) == attempts[p] < retry_attempts - 1

\* elif response.status in (429, 502, 503, 504)
IsRetryStatus(status) == status \in RetryStatuses

\* the status (or exception) the server answers request number k of part p with
StatusOf(p, k) ==
    IF k <= Len(server[p].resp) THEN server[p].resp[k] ELSE ConnError

\* open(file_path, 'wb'): creates the file or truncates it in place
OpenForWrite(name) == [fs EXCEPT ![name] = MkFile(<<>>, 0)]

\* what one iteration of the attempt loop does with the answer to its request
ResponseOutcome(p) ==
    /\ attempts' = [attempts EXCEPT ![p] = @ + 1]
    /\ LET status == StatusOf(p, attempts[p] + 1)
           name == episodes[p]
       IN  IF status = 200
           THEN IF ~Exists(fs, name) /\ name \in undeletable
                THEN Fail(p)
                ELSE /\ fs' = OpenForWrite(name)
                     /\ pc' = [pc EXCEPT ![p] = "streaming"]
                     /\ written' = [written EXCEPT ![p] = 0]
                     /\ detached' = [detached EXCEPT ![p] = FALSE]
                     /\ UNCHANGED <<ledger, completed_files, lists, permits,
                                    last_save>>
           ELSE IF IsRetryStatus(status)
           THEN /\ pc' = [pc EXCEPT ![p] = "backoff"]
                /\ UNCHANGED <<fs, ledger, completed_files, lists, permits,
                               last_save, written, detached>>
           ELSE IF status \in {ConnError, TimedOut} \/ RaisesForStatus(status)
           THEN IF MayRetry(p)
                THEN /\ pc' = [pc EXCEPT ![p] = "backoff"]
                     /\ UNCHANGED <<fs, ledger, completed_files, lists, permits,
                                    last_save, written, detached>>
                ELSE Fail(p)
           ELSE IF RangeHasNext(attempts[p] + 1)
                THEN UNCHANGED <<fs, ledger, completed_files, lists, permits,
                                 last_save, written, detached, pc>>
                ELSE Fail(p)

\* the response to the request in flight arrives (or the request raises)
Response(p) ==
    /\ phase = "running"
    /\ pc[p] = "request"
    /\ ResponseOutcome(p)
    /\ UNCHANGED <<env, retry, force, partition, phase, run, fetched, interrupted>>

\* after the sleep: the next iteration of the loop, or the loop is over
WakeOutcome(p) ==
    IF RangeHasNext(attempts[p])
    THEN /\ pc' = [pc EXCEPT ![p] = "request"]
         /\ UNCHANGED <<fs, ledger, completed_files, lists, permits,
                        last_save, written, detached>>
    ELSE Fail(p)

\* asyncio.sleep of the backoff is over: next iteration, or the loop is over
Wake(p) ==
    /\ phase = "running"
    /\ pc[p] = "backoff"
    /\ WakeOutcome(p)
    /\ UNCHANGED <<env, retry, force, partition, attempts, phase, run, fetched, interrupted>>

\* download_episode's success branch, download_with_semaphore's exit
Succeed(p, outcome) ==
    /\ successful_downloads' = Append(successful_downloads, p)
    /\ completed_files' = completed_files \cup {episodes[p]}
    /\ ledger' = save_resume_state(ledger, completed_files', episodes[p], outcome)
    /\ last_save' = outcome
    /\ pc' = [pc EXCEPT ![p] = "completed"]
    /\ permits' = permits + 1
    /\ UNCHANGED <<fs, failed_downloads, skipped_downloads, written, detached>>

\* one turn of `async for chunk in response.content.iter_chunked(8192)`
Chunk(p) ==
    /\ phase = "running"
    /\ pc[p] = "streaming"
    /\ LET body == server[p].body
           name == episodes[p]
           k == written[p] + 1
       IN  IF written[p] = server[p].breakAt
           THEN Fail(p)
           ELSE IF written[p] < NumChunks(body)
           THEN /\ fs' = IF detached[p] THEN fs
                         ELSE [fs EXCEPT ![name] =
                                 WriteAt(@, written[p] * ChunkSize,
                                         ChunkLen(body, k),
                                         IF k = 1 THEN body.prefix ELSE <<>>)]
                /\ written' = [written EXCEPT ![p] = k]
                /\ UNCHANGED <<ledger, completed_files, lists, permits, last_save,
                               pc, detached>>
           ELSE \E outcome \in SaveOutcomes : Succeed(p, outcome)
    /\ UNCHANGED <<env, retry, force, partition, attempts, phase, run, fetched, interrupted>>

\* _get_download_summary: the counts and the lists of parts
Summary ==
    [total_episodes |-> Len(successful_downloads) + Len(failed_downloads)
                          + Len(skipped_downloads),
     successful_downloads |-> Len(successful_downloads),
     skipped_downloads |-> Len(skipped_downloads),
     failed_downloads |-> Len(failed_downloads),
     failed_episodes |-> failed_downloads,
     successful_episodes |-> successful_downloads,
     skipped_episodes |-> skipped_downloads]

\* asyncio.gather returns: the summary is built
Finish ==
    /\ phase = "running"
    /\ \A p \in Parts : pc[p] \in Terminal \cup {"none"}
    /\ phase' = "done"
    /\ UNCHANGED <<env, retry, fs, ledger, force, completed_files, lists, partition, pc,
                   attempts, written, detached, permits, run, last_save, fetched, interrupted>>

\* ------------------------------------------------------------------------
\* The process dies; a later process is started on the same directory
\* ------------------------------------------------------------------------
Forget ==
    /\ completed_files' = {}
    /\ successful_downloads' = <<>>
    /\ failed_downloads' = <<>>
    /\ skipped_downloads' = <<>>
    /\ to_download' = <<>>
    /\ existing' = <<>>
    /\ invalid' = <<>>
    /\ pc' = [p \in Parts |-> "none"]
    /\ attempts' = [p \in Parts |-> 0]
    /\ written' = [p \in Parts |-> 0]
    /\ detached' = [p \in Parts |-> FALSE]
    /\ permits' = 0
    /\ last_save' = "none"

Completed == {p \in Parts : pc[p] = "completed"}

\* the process is killed between two steps of the event loop
Crash ==
    /\ phase = "running"
    /\ run = "first"
    /\ phase' = "crashed"
    /\ fetched' = fetched \cup Completed
    /\ interrupted' = {p \in Parts : pc[p] = "streaming"}
    /\ Forget
    /\ UNCHANGED <<env, retry, fs, ledger, force, run>>

\* the process is killed inside save_resume_state, after open(..., 'w')
CrashInSave(p) ==
    /\ phase = "running"
    /\ run = "first"
    /\ pc[p] = "streaming"
    /\ written[p] = NumChunks(server[p].body)
    /\ written[p] # server[p].breakAt
    /\ phase' = "crashed"
    /\ ledger' = BadLedger
    /\ fetched' = fetched \cup Completed \cup {p}
    /\ interrupted' = {q \in Parts \ {p} : pc[q] = "streaming"}
    /\ Forget
    /\ UNCHANGED <<env, retry, fs, force, run>>

\* `except Exception` catches everything but the BaseExceptions, of which
\* asyncio.CancelledError is one (the f-string of Episode.safe_filename
\* needs Python 3.12)
ExceptExceptionCatches(exc) == exc \notin {"CancelledError", "KeyboardInterrupt"}

\* Ctrl-C during the batch: asyncio.run cancels the main task, gather
\* cancels every task; a task waiting for the semaphore ends there, a task
\* inside download_file gets CancelledError at its await, which passes the
\* `except Exception` of download_file and of download_episode; main
\* prints "Download interrupted by user" and exits
Interrupt ==
    /\ phase = "running"
    /\ run = "first"
    /\ phase' = "interrupted"
    /\ fs' = IF ExceptExceptionCatches("CancelledError")
             THEN [x \in Names |->
                     IF /\ x \notin undeletable
                        /\ \E p \in Parts : pc[p] = "streaming" /\ episodes[p] = x
                     THEN NoFile ELSE fs[x]]
             ELSE fs
    /\ fetched' = fetched \cup Completed
    /\ interrupted' = {p \in Parts : pc[p] = "streaming"}
    /\ Forget
    /\ UNCHANGED <<env, retry, ledger, force, run>>

\* the command is run again on the same directory
Restart ==
    /\ phase \in {"crashed", "interrupted", "done"}
    /\ run = "first"
    /\ run' = IF phase = "done" THEN "after_exit" ELSE "after_crash"
    /\ phase' = "idle"
    /\ force' = FALSE
    /\ fetched' = fetched \cup Completed
    /\ Forget
    /\ UNCHANGED interrupted
    /\ UNCHANGED <<env, retry, fs, ledger>>


\* ------------------------------------------------------------------------
\* Initial states
\* ------------------------------------------------------------------------
\* files the directory may hold under a name before a process starts
Tiny == MkFile(BytesID3, 3)
AtThreshold == MkFile(BytesID3, min_file_size)
BelowThreshold == MkFile(BytesID3, min_file_size - 1)
SyncFile == MkFile(BytesSync, min_file_size + 1)
M4AFile == MkFile(BytesM4A, min_file_size)
BadBig == MkFile(BytesHtml, 2000)

FilesFor(name) ==
    CASE name = 3 -> {NoFile, Tiny, BadBig}
      [] name = 4 -> {NoFile, BelowThreshold, SyncFile}
      [] name = 5 -> {NoFile, M4AFile, BadBig}
      [] OTHER -> {NoFile, Tiny, AtThreshold}

\* response bodies: audio of two chunks, a short error page, nothing
GoodBody == [size |-> ChunkSize + 2000, prefix |-> BytesID3]
PageBody == [size |-> 500, prefix |-> BytesHtml]
EmptyBody == [size |-> 0, prefix |-> <<>>]

NoBreak == -1

\* episode lists: names 1..n in order, or the last episode carrying the
\* first one's file name
Distinct(n) == [k \in 1..n |-> k]
LastDup(n) == [k \in 1..n |-> IF k = n THEN 1 ELSE k]
EpisodeLists(n) == {Distinct(n)} \cup (IF n >= 2 THEN {LastDup(n)} ELSE {})

Used(eps) == ListToSet(eps)

\* nothing was displayed
NoDisplay == [total_episodes |-> 0, start_page |-> 0, final_page |-> 0]

\* no course material is downloaded and no request is in the client
NoMaterials ==
    /\ holders = {}
    /\ materials = <<>>
    /\ material_permits = 0
    /\ mpc = <<>>
    /\ mattempts = <<>>

\* the scraper has not been called
NoScrape ==
    /\ site = <<>>
    /\ page_num = 0
    /\ all_episodes = <<>>

\* the options of a run that is not started from the command line
DefaultOptions ==
    /\ start_episode = 1
    /\ final_episode = Len(episodes)
    /\ cli_force_redownload = FALSE
    /\ cli_clean_resume = FALSE

InitMemory ==
    /\ completed_files = {}
    /\ successful_downloads = <<>>
    /\ failed_downloads = <<>>
    /\ skipped_downloads = <<>>
    /\ to_download = <<>>
    /\ existing = <<>>
    /\ invalid = <<>>
    /\ pc = [p \in Parts |-> "none"]
    /\ attempts = [p \in Parts |-> 0]
    /\ written = [p \in Parts |-> 0]
    /\ detached = [p \in Parts |-> FALSE]
    /\ permits = 0
    /\ phase = "idle"
    /\ run = "first"
    /\ last_save = "none"
    /\ fetched = {}
    /\ interrupted = {}
    /\ shown = NoDisplay
    /\ NoScrape
    /\ NoMaterials
    /\ retry_episodes = <<>>
    /\ rounds = 0
    /\ retry_pc = "none"

\* partition alone: any directory, any ledger
InitPartition ==
    /\ \E n \in 1..MaxEpisodes : episodes \in EpisodeLists(n)
    /\ retry_attempts = DEFAULT_RETRY_ATTEMPTS
    /\ concurrent_downloads = 1
    /\ server = [p \in Parts |-> [resp |-> <<>>, body |-> EmptyBody, breakAt |-> NoBreak]]
    /\ force \in BOOLEAN
    /\ undeletable \in (IF force THEN {{}} ELSE {{}, Names})
    /\ fs \in [Names -> UNION {FilesFor(x) : x \in Names}]
    /\ \A x \in Names : fs[x] \in (IF x \in Used(episodes) THEN FilesFor(x) ELSE {NoFile})
    /\ ledger \in {NoLedger, BadLedger}
                    \cup {LedgerDoc(SetToList(S)) : S \in SUBSET Used(episodes)}
    /\ unreadable = {}
    /\ max_retries = 0
    /\ DefaultOptions
    /\ InitMemory

SpecPartition == InitPartition /\ [][StartBatch]_vars

\* one transfer: any response sequence, body, break point, old file
Statuses == {200, 503, 404, 204, ConnError, TimedOut}

InitFetch ==
    /\ episodes = <<1>>
    /\ retry_attempts \in 1..MaxRetries
    /\ concurrent_downloads = 1
    /\ \E resp \in [1..retry_attempts -> Statuses],
          body \in {GoodBody, PageBody, EmptyBody} :
         \E brk \in {NoBreak} \cup 0..NumChunks(body) :
            server = <<[resp |-> resp, body |-> body, breakAt |-> brk]>>
    /\ force \in BOOLEAN
    /\ undeletable \in {{}, {1}}
    /\ fs \in [Names -> {NoFile, Tiny, AtThreshold}]
    /\ \A x \in Names : x # 1 => fs[x] = NoFile
    /\ ledger = NoLedger
    /\ unreadable = {}
    /\ max_retries = 0
    /\ DefaultOptions
    /\ InitMemory

NextFetch ==
    \/ StartBatch
    \/ \E p \in Parts : Acquire(p)
    \/ \E p \in Parts : Response(p)
    \/ \E p \in Parts : Wake(p)
    \/ \E p \in Parts : Chunk(p)
    \/ Finish

SpecFetch == InitFetch /\ [][NextFetch]_vars

\* a batch: a few episodes, a few kinds of server behaviour per episode
Scripts ==
    { [resp |-> <<200>>, body |-> GoodBody, breakAt |-> NoBreak],
      [resp |-> <<503, 200>>, body |-> GoodBody, breakAt |-> 1] }

\* an empty directory, any mix of server behaviour and any concurrency limit
InitNetwork ==
    /\ \E n \in 1..MaxBatch : episodes \in EpisodeLists(n)
    /\ retry_attempts = 2
    /\ concurrent_downloads \in 1..MaxConcurrent
    /\ server \in [Parts -> Scripts]
    /\ force = FALSE
    /\ undeletable = {}
    /\ fs = [x \in Names |-> NoFile]
    /\ ledger = NoLedger
    /\ unreadable = {}
    /\ max_retries = 0
    /\ DefaultOptions
    /\ InitMemory

\* two episodes on a directory that was used before: old files, an old
\* ledger, a read-only directory, with and without --force-redownload
InitDisk ==
    /\ episodes = Distinct(2)
    /\ retry_attempts = 2
    /\ concurrent_downloads = 2
    /\ server \in [Parts -> Scripts]
    /\ force \in BOOLEAN
    /\ undeletable \in {{}, Names}
    /\ fs \in [Names -> {NoFile, Tiny, AtThreshold}]
    /\ fs[1] # NoFile
    /\ \A x \in Names : x > 2 => fs[x] = NoFile
    /\ ledger \in {NoLedger, LedgerDoc(<<1>>), LedgerDoc(<<1, MaxEpisodes>>)}
    /\ unreadable = {}
    /\ max_retries = 0
    /\ DefaultOptions
    /\ InitMemory

Init == InitNetwork \/ InitDisk

Next ==
    \/ StartBatch
    \/ \E p \in Parts : Acquire(p)
    \/ \E p \in Parts : Response(p)
    \/ \E p \in Parts : Wake(p)
    \/ \E p \in Parts : Chunk(p)
    \/ Finish
    \/ Crash
    \/ \E p \in Parts : CrashInSave(p)
    \/ Restart

Spec == Init /\ [][Next]_vars

\* ------------------------------------------------------------------------
\* The validator alone: one episode, any suffix, any file
\* ------------------------------------------------------------------------
FileSizes == {0, 3, min_file_size - 1, min_file_size, min_file_size + 1, 2000}

\* leading bytes: none, the three signatures, b'ftyp' ending at byte 10 and
\* at byte 11, an HTML page, a RIFF/WAVE file, an MPEG sync of another layer
FilePrefixes ==
    { <<>>, BytesID3, BytesSync, BytesM4A,
      <<0, 0, 0, 0, 0, 0>> \o BytesFtyp,
      <<0, 0, 0, 0, 0, 0, 0>> \o BytesFtyp,
      BytesHtml, BytesRiff, <<255, 250>> }

ValidateFiles == {NoFile} \cup {MkFile(pre, size) : pre \in FilePrefixes, size \in FileSizes}

InitValidate ==
    /\ \E n \in Names :
          /\ episodes = <<n>>
          /\ \E file \in ValidateFiles :
                fs = [x \in Names |-> IF x = n THEN file ELSE NoFile]
          /\ unreadable \in {{}, {n}}
          /\ ledger \in {NoLedger, LedgerDoc(<<n>>)}
    /\ retry_attempts = DEFAULT_RETRY_ATTEMPTS
    /\ concurrent_downloads = 1
    /\ server = [p \in Parts |-> [resp |-> <<>>, body |-> EmptyBody, breakAt |-> NoBreak]]
    /\ force = FALSE
    /\ undeletable \in {{}, Names}
    /\ max_retries = 0
    /\ DefaultOptions
    /\ InitMemory

SpecValidate == InitValidate /\ [][StartBatch]_vars

\* ------------------------------------------------------------------------
\* The resume test's directory: Tests 2 and 3 of test_resume_functionality
\* ------------------------------------------------------------------------
\* f.write(b'ID3'); f.write(b'\x00' * 1000)
TestFile == MkFile(BytesID3, 3 + 1000)

\* five episodes, each with no file, the file of Test 2 or the file of Test 3
InitResumeTest ==
    /\ episodes = Distinct(MaxEpisodes)
    /\ retry_attempts = DEFAULT_RETRY_ATTEMPTS
    /\ concurrent_downloads = 2
    /\ server = [p \in Parts |-> [resp |-> <<>>, body |-> EmptyBody, breakAt |-> NoBreak]]
    /\ force = FALSE
    /\ undeletable = {}
    /\ unreadable = {}
    /\ max_retries = 0
    /\ fs \in [Names -> {NoFile, Tiny, TestFile}]
    /\ ledger = NoLedger
    /\ DefaultOptions
    /\ InitMemory

SpecResumeTest == InitResumeTest /\ [][StartBatch]_vars

\* ------------------------------------------------------------------------
\* DownloadConfig: validators and pagination properties
\* ------------------------------------------------------------------------
\* a validator is modelled by whether it returns (TRUE) or raises ValueError
validate_episode_numbers(v) == ~(v <= 0)

\* values holds the names of the fields that passed validation before
validate_episode_range(v, values, start) ==
    ~("start_episode" \in values /\ v < start)

\* a validator that lets a limit of 0 through
validate_concurrent_downloads_nonneg(v) == ~(v < 0) /\ ~(v > MaxAllowedConcurrent)

validate_concurrent_downloads(v) == ~(v < 1) /\ ~(v > MaxAllowedConcurrent)

\* DownloadConfig(start_episode=start, final_episode=final,
\* concurrent_downloads=conc): fields are validated in declaration order and
\* the construction raises when any validator raised
DownloadConfigAccepts(start, final, conc) ==
    LET okStart == validate_episode_numbers(start)
        values == IF okStart THEN {"start_episode"} ELSE {}
        okFinal == /\ validate_episode_numbers(final)
                   /\ validate_episode_range(final, values, start)
    IN  okStart /\ okFinal /\ validate_concurrent_downloads(conc)

\* a start page computed from the episode number, not from the one before
start_page_from_number(self) == self.start_episode \div EpisodesPerPage + 1

start_page(self) == (self.start_episode - 1) \div EpisodesPerPage + 1
final_page(self) == (self.final_episode - 1) \div EpisodesPerPage + 1
total_episodes(self) == self.final_episode - self.start_episode + 1

\* main: create the download configuration and display it
ConstructConfig ==
    /\ phase = "config"
    /\ IF DownloadConfigAccepts(start_episode, final_episode, concurrent_downloads)
       THEN LET self == [start_episode |-> start_episode,
                         final_episode |-> final_episode]
            IN  /\ shown' = [total_episodes |-> total_episodes(self),
                             start_page |-> start_page(self),
                             final_page |-> final_page(self)]
                /\ phase' = "idle"
       ELSE /\ phase' = "rejected"
            /\ UNCHANGED shown
    /\ UNCHANGED <<episodes, retry_attempts, concurrent_downloads, server,
                   undeletable, unreadable, max_retries, start_episode,
                   final_episode, cli_force_redownload, cli_clean_resume,
                   retry, fs, ledger, force, completed_files, lists, partition,
                   pc, attempts, written, detached, permits, run, last_save,
                   fetched, interrupted, scrape, gates>>

\* arguments given for concurrent_downloads: around both ends of the range
ConcurrentArgs == {-1, 0, 1, MaxConcurrent, MaxAllowedConcurrent, MaxAllowedConcurrent + 1}

\* any episode range and limit, then a batch of one episode
InitConfig ==
    /\ episodes = <<1>>
    /\ retry_attempts = 2
    /\ concurrent_downloads \in ConcurrentArgs
    /\ server \in [Parts -> Scripts]
    /\ force = FALSE
    /\ undeletable = {}
    /\ unreadable = {}
    /\ max_retries = 0
    /\ fs = [x \in Names |-> NoFile]
    /\ ledger = NoLedger
    /\ start_episode \in -1..MaxEpisodeNumber
    /\ final_episode \in -1..MaxEpisodeNumber
    /\ cli_force_redownload = FALSE
    /\ cli_clean_resume = FALSE
    /\ completed_files = {}
    /\ successful_downloads = <<>>
    /\ failed_downloads = <<>>
    /\ skipped_downloads = <<>>
    /\ to_download = <<>>
    /\ existing = <<>>
    /\ invalid = <<>>
    /\ pc = [p \in Parts |-> "none"]
    /\ attempts = [p \in Parts |-> 0]
    /\ written = [p \in Parts |-> 0]
    /\ detached = [p \in Parts |-> FALSE]
    /\ permits = 0
    /\ phase = "config"
    /\ run = "first"
    /\ last_save = "none"
    /\ fetched = {}
    /\ interrupted = {}
    /\ shown = NoDisplay
    /\ NoScrape
    /\ NoMaterials
    /\ retry_episodes = <<>>
    /\ rounds = 0
    /\ retry_pc = "none"

NextConfig ==
    \/ ConstructConfig
    \/ StartBatch
    \/ \E p \in Parts : Acquire(p)
    \/ \E p \in Parts : Response(p)
    \/ \E p \in Parts : Wake(p)
    \/ \E p \in Parts : Chunk(p)
    \/ Finish

SpecConfig == InitConfig /\ [][NextConfig]_vars

\* ------------------------------------------------------------------------
\* A batch for the later episodes of a course, in the directory of an
\* earlier run
\* ------------------------------------------------------------------------
\* episode 1 is not in the list; its file and its ledger entry may be there
InitLaterRange ==
    /\ \E n \in 1..MaxRetryBatch : episodes = [k \in 1..n |-> k + 1]
    /\ retry_attempts = 2
    /\ concurrent_downloads \in 1..MaxConcurrent
    /\ server \in [Parts -> Scripts]
    /\ force \in BOOLEAN
    /\ undeletable = {}
    /\ unreadable = {}
    /\ max_retries = 0
    /\ fs \in [Names -> {NoFile, AtThreshold}]
    /\ \A x \in Names : x \notin {1} \cup Used(episodes) => fs[x] = NoFile
    /\ ledger \in {NoLedger, LedgerDoc(<<1>>), LedgerDoc(<<1, 2>>)}
    /\ start_episode = 2
    /\ final_episode = Len(episodes) + 1
    /\ cli_force_redownload = force
    /\ cli_clean_resume = FALSE
    /\ InitMemory

SpecLaterRange == InitLaterRange /\ [][NextFetch]_vars

\* ------------------------------------------------------------------------
\* The three gates: the batch's semaphore, the client's request semaphore
\* and the semaphore of the course-material downloads
\* ------------------------------------------------------------------------
\* ChannelPlusHTTPClient(max_concurrent=max(concurrent, 5))
max_concurrent == Max(concurrent_downloads, MinClientLimit)

Ep(p) == <<"episode", p>>
Mat(m) == <<"material", m>>
Mats == 1..Len(materials)

\* asyncio.Semaphore.acquire of the client's semaphore returns at once
ClientFree == Cardinality(holders) < max_concurrent

\* a client semaphore that is entered and never left
KeepClient(task) == holders

\* leaving `async with self._semaphore`: by return, by continue after the
\* sleep of a retryable status, or by an exception
ReleaseClient(task) == holders \ {task}

\* `async with self._semaphore:` of an episode's request is entered
SendRequest(p) ==
    /\ phase = "running"
    /\ pc[p] = "request"
    /\ Ep(p) \notin holders
    /\ ClientFree
    /\ holders' = holders \cup {Ep(p)}
    /\ UNCHANGED <<episodes, retry_attempts, concurrent_downloads, server,
                   undeletable, unreadable, max_retries, start_episode,
                   final_episode, cli_force_redownload, cli_clean_resume, shown,
                   scrape, materials, material_permits, mpc, mattempts, retry,
                   fs, ledger, force, completed_files, lists, partition, pc,
                   attempts, written, detached, permits, phase, run, last_save,
                   fetched, interrupted>>

\* the answer arrives inside the semaphore; a retryable status sleeps there
GatedResponse(p) ==
    /\ phase = "running"
    /\ pc[p] = "request"
    /\ Ep(p) \in holders
    /\ ResponseOutcome(p)
    /\ holders' = IF IsRetryStatus(StatusOf(p, attempts[p] + 1))
                  THEN holders
                  ELSE ReleaseClient(Ep(p))
    /\ UNCHANGED <<episodes, retry_attempts, concurrent_downloads, server,
                   undeletable, unreadable, max_retries, start_episode,
                   final_episode, cli_force_redownload, cli_clean_resume, shown,
                   scrape, materials, material_permits, mpc, mattempts, retry,
                   force, partition, phase, run, fetched, interrupted>>

\* the sleep is over; the semaphore, if it was held, is left
GatedWake(p) ==
    /\ phase = "running"
    /\ pc[p] = "backoff"
    /\ WakeOutcome(p)
    /\ holders' = ReleaseClient(Ep(p))
    /\ UNCHANGED <<episodes, retry_attempts, concurrent_downloads, server,
                   undeletable, unreadable, max_retries, start_episode,
                   final_episode, cli_force_redownload, cli_clean_resume, shown,
                   scrape, materials, material_permits, mpc, mattempts, retry,
                   force, partition, attempts, phase, run, fetched, interrupted>>

\* what changes for no material step
EpisodesUnchanged ==
    UNCHANGED <<episodes, retry_attempts, concurrent_downloads, server,
                undeletable, unreadable, max_retries, start_episode,
                final_episode, cli_force_redownload, cli_clean_resume, shown,
                scrape, materials, retry, fs, ledger, force, completed_files,
                lists, partition, pc, attempts, written, detached, permits,
                phase, run, last_save, fetched, interrupted>>

\* the material task created by main starts to run at the batch's first
\* await: semaphore = asyncio.Semaphore(3), one task per material
DownloadCourseMaterials ==
    /\ phase \in {"running", "done"}
    /\ materials # <<>>
    /\ \A m \in Mats : mpc[m] = "none"
    /\ mpc' = [m \in Mats |-> "queued"]
    /\ material_permits' = MaterialLimit
    /\ UNCHANGED <<holders, mattempts>>
    /\ EpisodesUnchanged

\* download_single_material: async with semaphore
MatAcquire(m) ==
    /\ mpc[m] = "queued"
    /\ material_permits > 0
    /\ material_permits' = material_permits - 1
    /\ mpc' = [mpc EXCEPT ![m] = "request"]
    /\ UNCHANGED <<holders, mattempts>>
    /\ EpisodesUnchanged

\* get_content -> _make_request_with_retry: async with self._semaphore
MatSendRequest(m) ==
    /\ mpc[m] = "request"
    /\ Mat(m) \notin holders
    /\ ClientFree
    /\ holders' = holders \cup {Mat(m)}
    /\ UNCHANGED <<material_permits, mpc, mattempts>>
    /\ EpisodesUnchanged

MatStatusOf(m, k) ==
    IF k <= Len(materials[m].resp) THEN materials[m].resp[k] ELSE ConnError

\* download_single_material's except branch and the exit of its semaphore
MatFail(m) ==
    /\ mpc' = [mpc EXCEPT ![m] = "failed"]
    /\ material_permits' = material_permits + 1

\* the answer to a material's request
MatResponse(m) ==
    /\ mpc[m] = "request"
    /\ Mat(m) \in holders
    /\ mattempts' = [mattempts EXCEPT ![m] = @ + 1]
    /\ LET status == MatStatusOf(m, mattempts[m] + 1)
       IN  IF status = 200
           THEN /\ mpc' = [mpc EXCEPT ![m] = "reading"]
                /\ holders' = ReleaseClient(Mat(m))
                /\ UNCHANGED material_permits
           ELSE IF IsRetryStatus(status)
           THEN /\ mpc' = [mpc EXCEPT ![m] = "backoff"]
                /\ UNCHANGED <<holders, material_permits>>
           ELSE IF status \in {ConnError, TimedOut} \/ RaisesForStatus(status)
           THEN /\ holders' = ReleaseClient(Mat(m))
                /\ IF mattempts[m] < retry_attempts - 1
                   THEN /\ mpc' = [mpc EXCEPT ![m] = "backoff"]
                        /\ UNCHANGED material_permits
                   ELSE MatFail(m)
           ELSE /\ holders' = ReleaseClient(Mat(m))
                /\ IF RangeHasNext(mattempts[m] + 1)
                   THEN UNCHANGED <<mpc, material_permits>>
                   ELSE MatFail(m)
    /\ EpisodesUnchanged

\* a material's sleep is over
MatWake(m) ==
    /\ mpc[m] = "backoff"
    /\ holders' = ReleaseClient(Mat(m))
    /\ IF RangeHasNext(mattempts[m])
       THEN /\ mpc' = [mpc EXCEPT ![m] = "request"]
            /\ UNCHANGED material_permits
       ELSE MatFail(m)
    /\ UNCHANGED mattempts
    /\ EpisodesUnchanged

\* content = await response.read(), then the file is written
MatRead(m) ==
    /\ mpc[m] = "reading"
    /\ IF materials[m].readOk
       THEN /\ mpc' = [mpc EXCEPT ![m] = "done"]
            /\ material_permits' = material_permits + 1
       ELSE MatFail(m)
    /\ UNCHANGED <<holders, mattempts>>
    /\ EpisodesUnchanged

\* servers for the episodes: at once, after a 503, never
GateScripts ==
    << [resp |-> <<200>>, body |-> EmptyBody, breakAt |-> NoBreak],
       [resp |-> <<503, 200>>, body |-> EmptyBody, breakAt |-> NoBreak],
       [resp |-> <<ConnError, ConnError>>, body |-> EmptyBody, breakAt |-> NoBreak] >>

\* servers for the materials: at once, two 503, a body that cannot be read
MaterialScripts ==
    << [resp |-> <<200>>, readOk |-> TRUE],
       [resp |-> <<503, 503>>, readOk |-> TRUE],
       [resp |-> <<ConnError, 200>>, readOk |-> FALSE] >>

\* the k-th task of a kind gets the k-th behaviour, in turn
InTurn(scripts, k) == scripts[((k - 1) % Len(scripts)) + 1]

\* a batch and the materials of the course, the tasks of each kind with one
\* server behaviour each, on an empty directory
InitGates ==
    /\ episodes = Distinct(MaxGateEpisodes)
    /\ retry_attempts = 2
    /\ concurrent_downloads \in 1..MaxGateEpisodes
    /\ server = [p \in Parts |-> InTurn(GateScripts, p)]
    /\ force = FALSE
    /\ undeletable = {}
    /\ unreadable = {}
    /\ max_retries = 0
    /\ fs = [x \in Names |-> NoFile]
    /\ ledger = NoLedger
    /\ DefaultOptions
    /\ completed_files = {}
    /\ successful_downloads = <<>>
    /\ failed_downloads = <<>>
    /\ skipped_downloads = <<>>
    /\ to_download = <<>>
    /\ existing = <<>>
    /\ invalid = <<>>
    /\ pc = [p \in Parts |-> "none"]
    /\ attempts = [p \in Parts |-> 0]
    /\ written = [p \in Parts |-> 0]
    /\ detached = [p \in Parts |-> FALSE]
    /\ permits = 0
    /\ phase = "idle"
    /\ run = "first"
    /\ last_save = "none"
    /\ fetched = {}
    /\ interrupted = {}
    /\ shown = NoDisplay
    /\ NoScrape
    /\ retry_episodes = <<>>
    /\ rounds = 0
    /\ retry_pc = "none"
    /\ holders = {}
    /\ materials = [m \in 1..MaxMaterials |-> InTurn(MaterialScripts, m)]
    /\ material_permits = 0
    /\ mpc = [m \in 1..MaxMaterials |-> "none"]
    /\ mattempts = [m \in 1..MaxMaterials |-> 0]

NextGates ==
    \/ StartBatch
    \/ \E p \in Parts : Acquire(p)
    \/ \E p \in Parts : SendRequest(p)
    \/ \E p \in Parts : GatedResponse(p)
    \/ \E p \in Parts : GatedWake(p)
    \/ \E p \in Parts : Chunk(p)
    \/ Finish
    \/ DownloadCourseMaterials
    \/ \E m \in Mats : MatAcquire(m)
    \/ \E m \in Mats : MatSendRequest(m)
    \/ \E m \in Mats : MatResponse(m)
    \/ \E m \in Mats : MatWake(m)
    \/ \E m \in Mats : MatRead(m)

SpecGates == InitGates /\ [][NextGates]_vars

\* the event loop runs a task that can run; requests and sleeps end
SpecGatesFair == SpecGates /\ WF_vars(NextGates)

\* ------------------------------------------------------------------------
\* The waits of an attempt chain
\* ------------------------------------------------------------------------
RECURSIVE Pow2(_)
Pow2(n) == IF n = 0 THEN 1 ELSE 2 * Pow2(n - 1)

\* a retryable status: await asyncio.sleep(2 ** attempt)
status_backoff(attempt) == Pow2(attempt)

\* an exception: wait_time = min(2 ** attempt, 30)
error_backoff(attempt) == Min(Pow2(attempt), BackoffCap)

\* the length in seconds of the sleep part p is in: the loop index of the
\* attempt that just ended is attempts[p] - 1
WaitOf(p) ==
    IF IsRetryStatus(StatusOf(p, attempts[p]))
    THEN status_backoff(attempts[p] - 1)
    ELSE error_backoff(attempts[p] - 1)

\* the transient failures of a server
TransientStatuses == {429, 503, ConnError, TimedOut}

\* one transfer with any accepted attempt count against a server that fails
\* the first n requests in the same way and then answers 200
InitBackoff ==
    /\ episodes = <<1>>
    /\ retry_attempts \in 1..MaxAttemptCount
    /\ concurrent_downloads = 1
    /\ \E st \in TransientStatuses, n \in 0..retry_attempts :
          server = <<[resp |-> [k \in 1..retry_attempts |-> IF k <= n THEN st ELSE 200],
                      body |-> GoodBody, breakAt |-> NoBreak]>>
    /\ force = FALSE
    /\ undeletable = {}
    /\ fs = [x \in Names |-> NoFile]
    /\ ledger = NoLedger
    /\ unreadable = {}
    /\ max_retries = 0
    /\ DefaultOptions
    /\ InitMemory

SpecBackoff == InitBackoff /\ [][NextFetch]_vars

\* ------------------------------------------------------------------------
\* Scraper: get_all_episodes
\* ------------------------------------------------------------------------
\* extract_episodes_from_page raised (request failed, invalid JSON)
PageError == <<-1>>

\* if config.start_episode <= episode.part <= config.final_episode
InRange(self, part) == self.start_episode <= part /\ part <= self.final_episode

RECURSIVE FilterRange(_, _)
FilterRange(self, page) ==
    IF page = <<>> THEN <<>>
    ELSE (IF InRange(self, Head(page)) THEN <<Head(page)>> ELSE <<>>)
            \o FilterRange(self, Tail(page))

\* insert part before the first element that is greater: a stable sort step
RECURSIVE InsertByPart(_, _)
InsertByPart(sorted, part) ==
    IF sorted = <<>> THEN <<part>>
    ELSE IF part < Head(sorted) THEN <<part>> \o sorted
    ELSE <<Head(sorted)>> \o InsertByPart(Tail(sorted), part)

\* a result that is returned in page order
sort_not_done(eps) == eps

\* all_episodes.sort(key=lambda ep: ep.part)
RECURSIVE sort_by_part(_)
sort_by_part(eps) ==
    IF eps = <<>> THEN <<>>
    ELSE InsertByPart(sort_by_part(SubSeq(eps, 1, Len(eps) - 1)), eps[Len(eps)])

TheConfig == [start_episode |-> start_episode, final_episode |-> final_episode]

\* get_all_episodes up to the loop over range(start_page, final_page + 1)
GetAllEpisodes ==
    /\ phase = "scrape"
    /\ page_num = 0
    /\ page_num' = start_page(TheConfig)
    /\ all_episodes' = <<>>
    /\ UNCHANGED <<episodes, retry_attempts, concurrent_downloads, server,
                   undeletable, unreadable, max_retries, start_episode,
                   final_episode, cli_force_redownload, cli_clean_resume, shown,
                   site, retry, fs, ledger, force, completed_files, lists,
                   partition, pc, attempts, written, detached, permits, phase,
                   run, last_save, fetched, interrupted, gates>>

\* one iteration: a page that raises is logged and skipped (continue)
ScanPage ==
    /\ phase = "scrape"
    /\ page_num > 0
    /\ page_num <= final_page(TheConfig)
    /\ all_episodes' = IF site[page_num] = PageError
                       THEN all_episodes
                       ELSE all_episodes \o FilterRange(TheConfig, site[page_num])
    /\ page_num' = page_num + 1
    /\ UNCHANGED <<episodes, retry_attempts, concurrent_downloads, server,
                   undeletable, unreadable, max_retries, start_episode,
                   final_episode, cli_force_redownload, cli_clean_resume, shown,
                   site, retry, fs, ledger, force, completed_files, lists,
                   partition, pc, attempts, written, detached, permits, phase,
                   run, last_save, fetched, interrupted, gates>>

\* the loop is over: sort and return
ReturnEpisodes ==
    /\ phase = "scrape"
    /\ page_num > final_page(TheConfig)
    /\ all_episodes' = sort_by_part(all_episodes)
    /\ phase' = "scraped"
    /\ UNCHANGED <<episodes, retry_attempts, concurrent_downloads, server,
                   undeletable, unreadable, max_retries, start_episode,
                   final_episode, cli_force_redownload, cli_clean_resume, shown,
                   site, page_num, retry, fs, ledger, force, completed_files,
                   lists, partition, pc, attempts, written, detached, permits,
                   run, last_save, fetched, interrupted, gates>>

\* part numbers a page may carry: in and out of the ranges, on both pages
PartPool == {1, 2, EpisodesPerPage + 1, EpisodesPerPage + 2, MaxScrapeEpisode + 1}

\* a page answers with an error, with no episode, or with up to two episodes
\* in any order
PageAnswers ==
    {PageError, <<>>} \cup {<<a>> : a \in PartPool}
                     \cup {<<a, b>> : a \in PartPool, b \in PartPool}

\* the pages of a course of MaxScrapeEpisode episodes
SitePages == 1..final_page([start_episode |-> 1, final_episode |-> MaxScrapeEpisode])

\* an accepted configuration and any site
InitScrape ==
    /\ episodes = <<1>>
    /\ retry_attempts = DEFAULT_RETRY_ATTEMPTS
    /\ concurrent_downloads = 1
    /\ server = [p \in Parts |-> [resp |-> <<>>, body |-> EmptyBody, breakAt |-> NoBreak]]
    /\ force = FALSE
    /\ undeletable = {}
    /\ unreadable = {}
    /\ max_retries = 0
    /\ fs = [x \in Names |-> NoFile]
    /\ ledger = NoLedger
    /\ start_episode \in {1, 2, EpisodesPerPage, EpisodesPerPage + 1}
    /\ final_episode \in {2, EpisodesPerPage, MaxScrapeEpisode}
    /\ DownloadConfigAccepts(start_episode, final_episode, concurrent_downloads)
    /\ cli_force_redownload = FALSE
    /\ cli_clean_resume = FALSE
    /\ shown = [total_episodes |-> total_episodes(TheConfig),
                start_page |-> start_page(TheConfig),
                final_page |-> final_page(TheConfig)]
    /\ site \in [SitePages -> PageAnswers]
    /\ page_num = 0
    /\ all_episodes = <<>>
    /\ NoMaterials
    /\ completed_files = {}
    /\ successful_downloads = <<>>
    /\ failed_downloads = <<>>
    /\ skipped_downloads = <<>>
    /\ to_download = <<>>
    /\ existing = <<>>
    /\ invalid = <<>>
    /\ pc = [p \in Parts |-> "none"]
    /\ attempts = [p \in Parts |-> 0]
    /\ written = [p \in Parts |-> 0]
    /\ detached = [p \in Parts |-> FALSE]
    /\ permits = 0
    /\ phase = "scrape"
    /\ run = "first"
    /\ last_save = "none"
    /\ fetched = {}
    /\ interrupted = {}
    /\ retry_episodes = <<>>
    /\ rounds = 0
    /\ retry_pc = "none"

NextScrape ==
    \/ GetAllEpisodes
    \/ ScanPage
    \/ ReturnEpisodes

SpecScrape == InitScrape /\ [][NextScrape]_vars

\* ------------------------------------------------------------------------
\* The command line: main, async_main up to the batch
\* ------------------------------------------------------------------------
\* the names bound in async_main: its parameters
AsyncMainParams ==
    {"path", "link", "start", "final", "concurrent", "timeout",
     "retry_attempts", "delay", "verbose", "dry_run", "validate_only"}

\* reading a name that is neither a parameter nor a global raises NameError
NameIsBound(name) == name \in AsyncMainParams

\* a clean-resume that empties the directory
clean_resume_all(dir) == [fs |-> [x \in Names |-> NoFile], ledger |-> NoLedger]

\* the clean-resume operation: if resume_file.exists(): resume_file.unlink()
clean_resume(dir) == [dir EXCEPT !.ledger = NoLedger]

\* async_main, "Handle resume options", as main runs it: `if clean_resume:`
\* and `if force_redownload:` read names of async_main's scope; a NameError
\* is logged, raised again and ends main with exit code 1
ResumeOptions ==
    /\ phase = "options"
    /\ IF ~NameIsBound("clean_resume")
       THEN /\ phase' = "aborted"
            /\ UNCHANGED <<fs, ledger, force>>
       ELSE LET dir == IF cli_clean_resume
                       THEN clean_resume([fs |-> fs, ledger |-> ledger])
                       ELSE [fs |-> fs, ledger |-> ledger]
            IN  /\ fs' = dir.fs
                /\ ledger' = dir.ledger
                /\ IF ~NameIsBound("force_redownload")
                   THEN phase' = "aborted" /\ UNCHANGED force
                   ELSE phase' = "idle" /\ force' = cli_force_redownload
    /\ UNCHANGED <<env, retry, completed_files, lists, partition, pc, attempts,
                   written, detached, permits, run, last_save, fetched,
                   interrupted>>

\* the clean-resume operation on its own, for a caller that has the flag
CleanResume ==
    /\ phase = "clean"
    /\ LET dir == clean_resume([fs |-> fs, ledger |-> ledger])
       IN  fs' = dir.fs /\ ledger' = dir.ledger
    /\ phase' = "idle"
    /\ UNCHANGED <<env, retry, force, completed_files, lists, partition, pc,
                   attempts, written, detached, permits, run, last_save, fetched,
                   interrupted>>

\* a directory that was used before: old files, any ledger
InitUsedDirectory ==
    /\ \E n \in 1..MaxBatch : episodes \in EpisodeLists(n)
    /\ retry_attempts = DEFAULT_RETRY_ATTEMPTS
    /\ concurrent_downloads = 1
    /\ server = [p \in Parts |-> [resp |-> <<>>, body |-> EmptyBody, breakAt |-> NoBreak]]
    /\ undeletable = {}
    /\ unreadable = {}
    /\ max_retries = 0
    /\ fs \in [Names -> UNION {FilesFor(x) : x \in Names}]
    /\ \A x \in Names : fs[x] \in (IF x \in Used(episodes) THEN FilesFor(x) ELSE {NoFile})
    /\ ledger \in {NoLedger, BadLedger}
                    \cup {LedgerDoc(SetToList(S)) : S \in SUBSET Used(episodes)}
    /\ start_episode = 1
    /\ final_episode = Len(episodes)

\* main was started with any combination of the two flags
InitCli ==
    /\ InitUsedDirectory
    /\ cli_force_redownload \in BOOLEAN
    /\ cli_clean_resume \in BOOLEAN
    /\ force = FALSE
    /\ completed_files = {}
    /\ successful_downloads = <<>>
    /\ failed_downloads = <<>>
    /\ skipped_downloads = <<>>
    /\ to_download = <<>>
    /\ existing = <<>>
    /\ invalid = <<>>
    /\ pc = [p \in Parts |-> "none"]
    /\ attempts = [p \in Parts |-> 0]
    /\ written = [p \in Parts |-> 0]
    /\ detached = [p \in Parts |-> FALSE]
    /\ permits = 0
    /\ phase = "options"
    /\ run = "first"
    /\ last_save = "none"
    /\ fetched = {}
    /\ interrupted = {}
    /\ shown = NoDisplay
    /\ NoScrape
    /\ NoMaterials
    /\ retry_episodes = <<>>
    /\ rounds = 0
    /\ retry_pc = "none"

SpecCli == InitCli /\ [][ResumeOptions]_vars

\* the clean-resume operation, then the batch's partition
InitClean ==
    /\ InitUsedDirectory
    /\ cli_force_redownload = FALSE
    /\ cli_clean_resume = TRUE
    /\ force = FALSE
    /\ completed_files = {}
    /\ successful_downloads = <<>>
    /\ failed_downloads = <<>>
    /\ skipped_downloads = <<>>
    /\ to_download = <<>>
    /\ existing = <<>>
    /\ invalid = <<>>
    /\ pc = [p \in Parts |-> "none"]
    /\ attempts = [p \in Parts |-> 0]
    /\ written = [p \in Parts |-> 0]
    /\ detached = [p \in Parts |-> FALSE]
    /\ permits = 0
    /\ phase = "clean"
    /\ run = "first"
    /\ last_save = "none"
    /\ fetched = {}
    /\ interrupted = {}
    /\ shown = NoDisplay
    /\ NoScrape
    /\ NoMaterials
    /\ retry_episodes = <<>>
    /\ rounds = 0
    /\ retry_pc = "none"

NextClean ==
    \/ CleanResume
    \/ StartBatch

SpecClean == InitClean /\ [][NextClean]_vars

\* ------------------------------------------------------------------------
\* A batch that is stopped from outside, and the run after it
\* ------------------------------------------------------------------------
InitStop ==
    /\ \E n \in 1..MaxRetryBatch : episodes = Distinct(n)
    /\ retry_attempts = 2
    /\ concurrent_downloads \in 1..MaxConcurrent
    /\ server \in [Parts -> Scripts]
    /\ force \in BOOLEAN
    /\ undeletable = {}
    /\ unreadable = {}
    /\ max_retries = 0
    /\ fs \in [Names -> {NoFile, Tiny, AtThreshold}]
    /\ \A x \in Names : x # 1 => fs[x] = NoFile
    /\ ledger \in {NoLedger, LedgerDoc(<<1>>)}
    /\ DefaultOptions
    /\ InitMemory

NextStop ==
    \/ StartBatch
    \/ \E p \in Parts : Acquire(p)
    \/ \E p \in Parts : Response(p)
    \/ \E p \in Parts : Wake(p)
    \/ \E p \in Parts : Chunk(p)
    \/ Finish
    \/ Crash
    \/ Interrupt
    \/ Restart

SpecStop == InitStop /\ [][NextStop]_vars

\* ------------------------------------------------------------------------
\* the file names of a list of parts, and parts from positions of that list
NamesOf(batch) == [k \in 1..Len(batch) |-> episodes[batch[k]]]
MapParts(batch, idxs) == [k \in 1..Len(idxs) |-> batch[idxs[k]]]

\* the call, up to the loop
RetryFailedDownloads ==
    /\ phase = "done"
    /\ retry_pc = "none"
    /\ IF failed_downloads = <<>>
       THEN /\ retry_pc' = "returned"
            /\ UNCHANGED <<retry_episodes, failed_downloads>>
       ELSE /\ retry_episodes' = failed_downloads
            /\ failed_downloads' = <<>>
            /\ retry_pc' = "loop"
    /\ rounds' = 0
    /\ UNCHANGED <<env, fs, ledger, force, completed_files, successful_downloads,
                   skipped_downloads, partition, pc, attempts, written, detached,
                   permits, phase, run, last_save, fetched, interrupted>>

\* a loop that goes on while items are left, however many rounds were run
LoopGoesOnUnbounded == retry_episodes # <<>>

\* for attempt in range(max_retries): if not retry_episodes: break
LoopGoesOn == rounds < max_retries /\ retry_episodes # <<>>

\* one iteration: the sleep, during which the server may change, then
\* download_episodes_batch(retry_episodes) up to asyncio.gather; or the loop
\* is over and the summary is returned
RetryRound ==
    /\ retry_pc = "loop"
    /\ IF LoopGoesOn
       THEN /\ rounds' = rounds + 1
            /\ retry_pc' = "batch"
            /\ force' = FALSE
            /\ \E s \in [Parts -> Scripts] :
                  /\ \A p \in Parts : p \notin ListToSet(retry_episodes) => s[p] = server[p]
                  /\ server' = s
            /\ IF SetRaises(ledger)
               THEN /\ phase' = "aborted"
                    /\ UNCHANGED <<fs, completed_files, skipped_downloads, partition,
                                   pc, permits, attempts, written, detached>>
               ELSE LET batch == ListToSet(retry_episodes)
                        r == filter_episodes_for_download(
                                NamesOf(retry_episodes), FALSE, fs, ledger,
                                completed_files, undeletable)
                    IN  /\ to_download' = MapParts(retry_episodes, r.to_download)
                        /\ existing' = MapParts(retry_episodes, r.existing)
                        /\ invalid' = MapParts(retry_episodes, r.invalid)
                        /\ fs' = r.fs
                        /\ completed_files' = r.completed_files
                        /\ skipped_downloads' = skipped_downloads \o existing'
                        /\ pc' = [p \in Parts |->
                                    IF p \in ListToSet(to_download') THEN "queued"
                                    ELSE IF p \in batch THEN "none" ELSE pc[p]]
                        /\ phase' = IF r.to_download = <<>> THEN "done" ELSE "running"
                        /\ permits' = concurrent_downloads
                        /\ attempts' = [p \in Parts |-> IF p \in batch THEN 0 ELSE attempts[p]]
                        /\ written' = [p \in Parts |-> IF p \in batch THEN 0 ELSE written[p]]
                        /\ detached' = [p \in Parts |-> IF p \in batch THEN FALSE ELSE detached[p]]
            /\ UNCHANGED retry_episodes
       ELSE /\ retry_pc' = "returned"
            /\ UNCHANGED <<server, fs, force, completed_files, skipped_downloads,
                           partition, pc, attempts, written, detached, permits,
                           phase, retry_episodes, rounds>>
    /\ UNCHANGED <<config, ledger, successful_downloads, failed_downloads, run,
                   last_save, fetched, interrupted>>

\* the batch of this round has returned:
\* retry_episodes = self.failed_downloads.copy(); self.failed_downloads.clear()
RetryUpdate ==
    /\ retry_pc = "batch"
    /\ phase = "done"
    /\ retry_episodes' = failed_downloads
    /\ failed_downloads' = <<>>
    /\ retry_pc' = "loop"
    /\ UNCHANGED <<env, fs, ledger, force, completed_files, successful_downloads,
                   skipped_downloads, partition, pc, attempts, written, detached,
                   permits, phase, run, last_save, fetched, interrupted, rounds>>

\* a batch followed by retry_failed_downloads, on a directory that may hold
\* a finished file and a ledger someone else wrote
InitRetry ==
    /\ \E n \in 1..MaxRetryBatch : episodes = Distinct(n)
    /\ retry_attempts = 2
    /\ concurrent_downloads \in 1..MaxConcurrent
    /\ server \in [Parts -> Scripts]
    /\ force \in BOOLEAN
    /\ undeletable = {}
    /\ unreadable = {}
    /\ max_retries \in 0..MaxRounds
    /\ fs \in [Names -> {NoFile, AtThreshold}]
    /\ \A x \in Names : x # 1 => fs[x] = NoFile
    /\ ledger \in {NoLedger, BadLedger, NestedLedger}
    /\ DefaultOptions
    /\ InitMemory

NextRetry ==
    \/ StartBatch
    \/ \E p \in Parts : Acquire(p)
    \/ \E p \in Parts : Response(p)
    \/ \E p \in Parts : Wake(p)
    \/ \E p \in Parts : Chunk(p)
    \/ Finish
    \/ RetryFailedDownloads
    \/ RetryRound
    \/ RetryUpdate

SpecRetry == InitRetry /\ [][NextRetry]_vars

\* the event loop runs whatever step is ready
SpecRetryFair == SpecRetry /\ WF_vars(NextRetry)

\* ------------------------------------------------------------------------
\* Properties of partition (SpecPartition)
\* ------------------------------------------------------------------------
InSeq(x, seq) == \E k \in 1..Len(seq) : seq[k] = x

\* a step that runs partition with force = false
PartitionStep == phase = "idle" /\ phase' # "idle" /\ ~force
Partitioned == phase \in {"running", "done"}

HeaderOk(file) ==
    \/ StartsWith(file.head, BytesID3)
    \/ StartsWith(file.head, BytesSync)
    \/ Contains(file.head, BytesFtyp)

\* C2: with force=false every item whose file exists and passes the
\* Validator before partition is in existing, not in to_download, and its
\* name is in the in-memory completed set, whatever the ledger holds; 5
\* items with valid files for 1, 3, 5, no file for 2, 4 and an empty ledger
\* give existing = <<1,3,5>>, to_download = <<2,4>>, invalid = <<>>.
C2_ValidIsExisting ==
    [][PartitionStep =>
        /\ \A p \in Parts :
              is_file_complete(fs, episodes[p]) =>
                 /\ InSeq(p, existing')
                 /\ ~InSeq(p, to_download')
                 /\ episodes[p] \in completed_files'
        /\ ( /\ episodes = Distinct(5)
             /\ \A p \in {1, 3, 5} : is_file_complete(fs, p)
             /\ \A p \in {2, 4} : ~Exists(fs, p)
             /\ load_resume_state(ledger) = <<>> )
           => /\ existing' = <<1, 3, 5>>
              /\ to_download' = <<2, 4>>
              /\ invalid' = <<>>
    ]_vars

C2_Witness ==
    /\ Partitioned /\ ~force
    /\ episodes = Distinct(5)
    /\ ledger = NoLedger
    /\ existing = <<1, 3, 5>>
    /\ to_download = <<2, 4>>
    /\ \A p \in {1, 3, 5} : is_file_complete(fs, p)

\* an item whose file exists before partition and fails the Validator
InvalidBefore(p) == Exists(fs, episodes[p]) /\ ~is_file_complete(fs, episodes[p])

\* an earlier episode of the list carries the same file name
EarlierSameName(p) == \E q \in 1..(p - 1) : episodes[q] = episodes[p]

\* C3 as stated: with force=false an item whose file exists and fails the
\* Validator is not in existing, its file is deleted (unless the delete
\* fails), and it is listed in invalid and in to_download.
C3_InvalidListed ==
    [][PartitionStep =>
        \A p \in Parts :
           InvalidBefore(p) =>
              /\ ~InSeq(p, existing')
              /\ InSeq(p, to_download')
              /\ InSeq(p, invalid')
              /\ (episodes[p] \notin undeletable => ~Exists(fs', episodes[p]))
    ]_vars

\* C3 amended: with force=false an item whose file exists and fails the
\* Validator is never in existing and always in to_download, its file is
\* deleted unless the delete fails, and partition completes either way; it
\* is listed in invalid unless an earlier item of the list has the same
\* file name and that item's delete removed the file.
C3_InvalidRequeued ==
    [][PartitionStep =>
        \A p \in Parts :
           InvalidBefore(p) =>
              /\ ~InSeq(p, existing')
              /\ InSeq(p, to_download')
              /\ (InSeq(p, invalid') <=>
                    (episodes[p] \in undeletable \/ ~EarlierSameName(p)))
              /\ (episodes[p] \notin undeletable => ~Exists(fs', episodes[p]))
              /\ (episodes[p] \in undeletable => fs'[episodes[p]] = fs[episodes[p]])
              /\ phase' \in {"running", "done"}
    ]_vars

\* a 3-byte file of item 2 was deleted, item 2 is in invalid and to_download
C3_Witness ==
    /\ Partitioned /\ ~force
    /\ Len(episodes) >= 2 /\ episodes[2] = 2
    /\ ~Exists(fs, 2)
    /\ InSeq(2, invalid) /\ InSeq(2, to_download)

\* C4: with force=true partition returns to_download equal to the input
\* list, existing and invalid empty, whatever the ledger and the directory
\* hold.
C4_ForceAll ==
    (Partitioned /\ force) =>
        /\ to_download = [k \in Parts |-> k]
        /\ existing = <<>>
        /\ invalid = <<>>

\* force=true on a directory with a valid, ledgered file and an invalid file
C4_Witness ==
    /\ Partitioned /\ force
    /\ Len(episodes) >= 2
    /\ is_file_complete(fs, episodes[1])
    /\ episodes[1] \in ListToSet(load_resume_state(ledger))
    /\ Exists(fs, 2) /\ ~is_file_complete(fs, 2)
    /\ to_download = [k \in Parts |-> k]

\* C10 as stated: every item in existing has a file that exists, is larger
\* than the 1024-byte threshold and whose leading bytes pass the header check.
C10_ExistingExceeds ==
    (Partitioned /\ ~force) =>
        \A p \in Parts :
           InSeq(p, existing) =>
              /\ Exists(fs, episodes[p])
              /\ fs[episodes[p]].size > min_file_size
              /\ HeaderOk(fs[episodes[p]])

\* C10 amended: every item in existing has a file that exists, whose size is
\* at least the 1024-byte threshold, and, when its suffix is a recognized
\* audio suffix, whose leading bytes pass the header check.
C10_ExistingValid ==
    (Partitioned /\ ~force) =>
        \A p \in Parts :
           InSeq(p, existing) =>
              /\ Exists(fs, episodes[p])
              /\ fs[episodes[p]].size >= min_file_size
              /\ (Lower(Suffix(episodes[p])) \in AudioSuffixes
                     => HeaderOk(fs[episodes[p]]))

\* a file of exactly 1024 bytes and a .pdf with no audio header are existing
C10_Witness ==
    /\ Partitioned /\ ~force
    /\ Len(episodes) >= 3
    /\ InSeq(1, existing) /\ fs[episodes[1]].size = min_file_size
    /\ InSeq(3, existing) /\ ~HeaderOk(fs[episodes[3]])

\* C22: with force=false partition returns the lists, and leaves the
\* directory, that it returns and leaves for the same directory and item
\* list with no ledger at all, whatever the ledger holds.
C22_LedgerAdvisory ==
    [][PartitionStep =>
          LET r == filter_episodes_for_download(episodes, FALSE, fs, NoLedger,
                                                completed_files, undeletable)
          IN  /\ to_download' = r.to_download
              /\ existing' = r.existing
              /\ invalid' = r.invalid
              /\ fs' = r.fs]_vars

\* the ledger named an invalid file (deleted, listed invalid) and an absent
\* one (to download), and did not name a valid one (existing)
C22_Witness ==
    /\ Partitioned /\ ~force
    /\ episodes = Distinct(3)
    /\ ListToSet(load_resume_state(ledger)) = {1, 2}
    /\ invalid = <<1>>
    /\ to_download = <<1, 2>>
    /\ existing = <<3>>
    /\ ~Exists(fs, 1)

Increasing(seq) == \A j, k \in 1..Len(seq) : j < k => seq[j] < seq[k]

\* C23: the three lists partition returns are a function of the item list,
\* the directory and the ledger alone, and within each list the items
\* stand in the order of the input list.
C23_OrderPreserving ==
    [][PartitionStep =>
          LET r == filter_episodes_for_download(episodes, FALSE, fs, ledger,
                                                {}, undeletable)
          IN  /\ <<to_download', existing', invalid'>> =
                    <<r.to_download, r.existing, r.invalid>>
              /\ Increasing(to_download')
              /\ Increasing(existing')
              /\ Increasing(invalid')]_vars

\* five items spread over the three lists, at least two in each
C23_Witness ==
    /\ Partitioned /\ ~force
    /\ Len(episodes) = 5
    /\ Len(existing) >= 2
    /\ Len(invalid) >= 2
    /\ Len(to_download) >= 3

\* ------------------------------------------------------------------------
\* Properties of the validator (SpecValidate)
\* ------------------------------------------------------------------------
\* a path that does not exist, or a file below the size threshold
MissingOrSmall(name) == ~Exists(fs, name) \/ fs[name].size < 1024

Signature(head) ==
    \/ Len(head) >= 3 /\ head[1] = 73 /\ head[2] = 68 /\ head[3] = 51
    \/ Len(head) >= 2 /\ head[1] = 255 /\ head[2] = 251
    \/ \E k \in 1..7 :
          /\ k + 3 <= Len(head)
          /\ head[k] = 102 /\ head[k + 1] = 116
          /\ head[k + 2] = 121 /\ head[k + 3] = 112

PassesSizeGate(name) == Exists(fs, name) /\ fs[name].size >= 1024

RecognizedSuffix(name) == Suffix(name) \in {".mp3", ".MP3", ".wav", ".m4a"}

\* C18: for a file that passes the size gate, with a recognized audio
\* suffix (.mp3, .wav, .m4a, in any case) is_file_complete is true exactly
\* when the file can be read and its first 10 bytes start with ID3 or FF FB
\* or hold 'ftyp'; with any other suffix it is true; partition classifies
\* the item accordingly.
C18_HeaderGate ==
    /\ [](\A name \in Names :
            PassesSizeGate(name) =>
               IF RecognizedSuffix(name)
               THEN is_file_complete(fs, name) <=>
                       (name \notin unreadable /\ Signature(fs[name].head))
               ELSE is_file_complete(fs, name))
    /\ [][PartitionStep =>
            \A p \in Parts :
               PassesSizeGate(episodes[p]) =>
                  (InSeq(p, existing') <=>
                     (RecognizedSuffix(episodes[p]) =>
                        /\ episodes[p] \notin unreadable
                        /\ Signature(fs[episodes[p]].head)))]_vars

\* a .wav file of 2000 bytes that starts with RIFF was rejected
C18_Witness ==
    /\ Partitioned
    /\ episodes = <<2>>
    /\ fs[2] = MkFile(BytesRiff, 2000)
    /\ invalid = <<1>> /\ existing = <<>>

\* ------------------------------------------------------------------------
\* Properties of the batch (Spec)
\* ------------------------------------------------------------------------
\* C1: at every instant the number of episode transfers in flight is at
\* most concurrent_downloads, whatever the number of pending items and the
\* interleaving of completions and failures.
C1_InFlightBounded == Cardinality(InFlight) <= concurrent_downloads

\* limit 2, three items to download: two in flight, the third one waiting
C1_Witness ==
    /\ phase = "running"
    /\ concurrent_downloads = 2
    /\ Len(to_download) = 3
    /\ Cardinality(InFlight) = 2
    /\ \E p \in Parts : pc[p] = "queued"

\* C5: every recorded success is in the in-memory completed set and a save
\* was made in the same step; unless the latest save failed, the persisted
\* ledger names every item recorded as successful in this batch.
C5_NoLostUpdate ==
    /\ \A p \in ListToSet(successful_downloads) : episodes[p] \in completed_files
    /\ successful_downloads # <<>> => last_save # "none"
    /\ last_save = "ok" =>
          \A p \in ListToSet(successful_downloads) :
             episodes[p] \in ListToSet(load_resume_state(ledger))

\* two transfers that were in flight together have both been recorded
C5_Witness ==
    /\ concurrent_downloads = 2
    /\ Len(successful_downloads) = 2
    /\ episodes[successful_downloads[1]] # episodes[successful_downloads[2]]
    /\ last_save = "ok"
    /\ Len(load_resume_state(ledger)) = 2

\* C6: in the process started after a crash (force=false, directory as the
\* crash left it) every item whose fetch had returned true before the crash
\* and whose file passes the Validator is classified existing, is not in
\* to_download and gets no download task, whatever state the ledger file
\* is in.
C6_CrashKeepsProgress ==
    [][ /\ (phase = "idle" /\ run # "first" /\ phase' # "idle") =>
              \A p \in fetched :
                 is_file_complete(fs, episodes[p]) =>
                    InSeq(p, existing') /\ ~InSeq(p, to_download')
        /\ (run # "first" /\ run' = run /\ phase' \in {"running", "done"}) =>
              \A p \in Parts : InSeq(p, existing') => pc'[p] = "none"
    ]_vars

\* after a crash that left the ledger truncated or missing, a finished item
\* is existing while another item has to be downloaded
C6_Witness ==
    /\ run = "after_crash"
    /\ phase = "running"
    /\ ledger \in {NoLedger, BadLedger}
    /\ \E p \in fetched : InSeq(p, existing)
    /\ to_download # <<>>

\* an item whose invalid file was deleted by the partition of this batch
DeletedAsInvalid(p) == InSeq(p, invalid) /\ episodes[p] \notin undeletable

\* the file of item p has been downloaded (or found complete) since
DownloadedAgain(p) ==
    \E q \in Parts : episodes[q] = episodes[p] /\ pc[q] \in {"completed", "skipped"}

\* C11: once partition has deleted an item's file as invalid, neither the
\* persisted ledger file nor the in-memory completed set holds an entry for
\* that file, at every later point until the item is downloaded again.
C11_DeletedNotLedgered ==
    \A p \in Parts :
       (DeletedAsInvalid(p) /\ ~DownloadedAgain(p)) =>
          /\ episodes[p] \notin ListToSet(load_resume_state(ledger))
          /\ episodes[p] \notin completed_files

Count(x, seq) == Cardinality({k \in 1..Len(seq) : seq[k] = x})

PairwiseDifferent(eps) ==
    \A j, k \in 1..Len(eps) : j # k => eps[j] # eps[k]

\* C16: when a batch on a fresh orchestrator is over and the items have
\* pairwise different file names, every input item is in exactly one of
\* the downloaded, skipped and failed lists, once, and the three counts of
\* the summary add up to the number of input items.
C16_CountsAddUp ==
    (phase = "done" /\ PairwiseDifferent(episodes)) =>
        /\ \A p \in Parts :
              Count(p, successful_downloads) + Count(p, skipped_downloads)
                 + Count(p, failed_downloads) = 1
        /\ Summary.successful_downloads + Summary.skipped_downloads
              + Summary.failed_downloads = Len(episodes)
        /\ Summary.total_episodes = Len(episodes)

\* a batch is over with a downloaded, a skipped and a failed item
C16_Witness ==
    /\ phase = "done"
    /\ PairwiseDifferent(episodes)
    /\ Summary.successful_downloads >= 1
    /\ Summary.skipped_downloads >= 1
    /\ Summary.failed_downloads >= 1

C21_AtomicSave ==
    [][ledger' # ledger =>
          /\ ledger'.kind = "json"
          /\ ledger' = LedgerDoc(SetToList(completed_files'))]_vars

\* ------------------------------------------------------------------------
\* Properties of a stopped batch (SpecStop)
\* ------------------------------------------------------------------------
\* the file of item p holds less than the body the server sends
PartialFile(p) ==
    Exists(fs, episodes[p]) /\ fs[episodes[p]].size < server[p].body.size

\* C24: when the process has stopped after an interrupt, no transfer is in
\* flight and no item whose transfer was in flight at the interrupt has a
\* partially written file on disk.
C24_InterruptCleans ==
    phase = "interrupted" =>
        /\ \A p \in Parts : pc[p] = "none"
        /\ \A p \in interrupted : ~PartialFile(p)

\* C25: in the partition of the run that follows a stop, every item whose
\* transfer was cut off while its file was being written is in to_download
\* and not in existing.
C25_RestartFromZero ==
    [][(phase = "idle" /\ run = "after_crash" /\ phase' # "idle") =>
          \A p \in interrupted :
             InSeq(p, to_download') /\ ~InSeq(p, existing')]_vars

\* ------------------------------------------------------------------------
\* Properties of a batch and its retry rounds (SpecRetry, SpecRetryFair)
\* ------------------------------------------------------------------------
\* C12: the step in which an item fails records it as failed, leaves the
\* batch running and every other task where it was; when the batch is over
\* every item of to_download has been attempted and has an outcome; and a
\* batch that has started its tasks always comes to its summary.
C12_NoAbort ==
    /\ [][\A p \in Parts :
            (pc[p] # "failed" /\ pc'[p] = "failed") =>
               /\ InSeq(p, failed_downloads')
               /\ phase' = "running"
               /\ \A q \in Parts \ {p} : pc'[q] = pc[q]]_vars
    /\ [](phase = "done" => \A p \in Parts : InSeq(p, to_download) => pc[p] \in Terminal)
    /\ (phase = "running") ~> (phase = "done")

\* the first batch is over: one item failed, another was downloaded after it
C12_Witness ==
    /\ phase = "done" /\ retry_pc = "none"
    /\ Len(episodes) = 2
    /\ concurrent_downloads = 1
    /\ failed_downloads = <<1>>
    /\ successful_downloads = <<2>>

\* C14: a retry round is begun only while fewer than max_retries rounds
\* were run and the failed set is not empty; its batch holds exactly the
\* items that failed in the batch before; with an empty failed set the call
\* returns without another round; and no item that is already downloaded
\* or skipped is requested again during a retry.
C14_RetryOnlyFailed ==
    /\ [](rounds <= max_retries)
    /\ [][rounds' = rounds + 1 =>
            /\ rounds < max_retries
            /\ retry_episodes # <<>>
            /\ \A p \in Parts : InSeq(p, retry_episodes) <=> pc[p] = "failed"
            /\ \A p \in Parts : pc'[p] = "queued" => InSeq(p, retry_episodes)
            /\ \A p \in Parts : ~InSeq(p, retry_episodes) => pc'[p] = pc[p]]_vars
    /\ [][(retry_pc = "loop" /\ retry_episodes = <<>>) =>
            (retry_pc' = "returned" /\ rounds' = rounds /\ phase' = phase)]_vars
    /\ [][\A p \in Parts :
            (retry_pc # "none" /\ attempts'[p] > attempts[p]) =>
               /\ InSeq(p, retry_episodes)
               /\ ~InSeq(p, successful_downloads)
               /\ ~InSeq(p, skipped_downloads)]_vars

\* item 2 failed in the batch and was downloaded in the first of two retry
\* rounds; item 1 was downloaded in the batch and not requested again
C14_Witness ==
    /\ retry_pc = "returned"
    /\ max_retries = 2 /\ rounds = 1
    /\ successful_downloads = <<1, 2>>
    /\ attempts[1] = 1

\* C15: the summary retry_failed_downloads returns after its rounds lists
\* as failed exactly the items whose download failed in the last round.
C15_FailedReported ==
    (retry_pc = "returned" /\ rounds >= 1) =>
        \A p \in Parts : pc[p] = "failed" <=> InSeq(p, Summary.failed_episodes)

\* C20: a ledger file that is missing, unreadable or malformed never ends
\* the batch with an error, and after a save that failed the item just
\* transferred is reported as downloaded.
C20_LedgerNeverFatal ==
    /\ phase # "aborted"
    /\ last_save \in {"open_failed", "dump_failed"} =>
          /\ successful_downloads # <<>>
          /\ pc[successful_downloads[Len(successful_downloads)]] = "completed"

\* ------------------------------------------------------------------------
\* Properties of one transfer (SpecFetch)
\* ------------------------------------------------------------------------
\* the step in which the answer to part p's request arrives
ResponseStep(p) == pc[p] = "request" /\ attempts'[p] = attempts[p] + 1

Transient(status) == status \in RetryStatuses \cup {ConnError, TimedOut}

\* the server answers 503, 503, 200 and the body arrives whole, on a
\* directory the file can be created in
Scenario503(p) ==
    /\ Len(server[p].resp) >= 3
    /\ SubSeq(server[p].resp, 1, 3) = <<503, 503, 200>>
    /\ server[p].breakAt = NoBreak
    /\ episodes[p] \notin undeletable

\* C7: never more than retry_attempts requests are made for one URL; an
\* attempt that ends in 429/502/503/504 or in a connection or timeout error
\* is followed by a backoff and another attempt while attempts are left;
\* on 503, 503, 200 the item ends as downloaded, not failed, after exactly
\* 3 attempts.
C7_BoundedRetries ==
    /\ [](\A p \in Parts : attempts[p] <= retry_attempts)
    /\ [][\A p \in Parts :
            (/\ ResponseStep(p)
             /\ Transient(StatusOf(p, attempts'[p]))
             /\ attempts'[p] < retry_attempts) => pc'[p] = "backoff"]_vars
    /\ [][\A p \in Parts :
            (pc[p] = "backoff" /\ pc'[p] # "backoff" /\ attempts[p] < retry_attempts)
               => (pc'[p] = "request" /\ attempts'[p] = attempts[p])]_vars
    /\ [](\A p \in Parts :
            (Scenario503(p) /\ pc[p] \in {"completed", "failed"}) =>
               /\ pc[p] = "completed"
               /\ attempts[p] = 3
               /\ InSeq(p, successful_downloads)
               /\ ~InSeq(p, failed_downloads))

C7_Witness ==
    /\ phase = "done"
    /\ Scenario503(1)
    /\ attempts[1] = 3
    /\ successful_downloads = <<1>>
    /\ failed_downloads = <<>>
    /\ fs[1] = MkFile(BytesID3, server[1].body.size)

\* a status that is neither 200 nor one of 429/502/503/504
TerminalStatus(status) == status > 0 /\ status # 200 /\ status \notin RetryStatuses

\* C8: a response whose status is neither 200 nor one of 429/502/503/504
\* ends the attempt chain: no further attempt is made and the transfer has
\* failed.
C8_TerminalStatus ==
    [][\A p \in Parts :
         (ResponseStep(p) /\ TerminalStatus(StatusOf(p, attempts'[p])))
            => pc'[p] = "failed"]_vars

\* C9: when the transfer of an item ends in failure, no file is left at its
\* destination path.
C9_FailedLeavesNoFile ==
    [][\A p \in Parts :
         (pc[p] # "failed" /\ pc'[p] = "failed") => ~Exists(fs', episodes[p])]_vars

C27_FlagsTakeEffect ==
    [][phase = "options" =>
          /\ phase' = "idle"
          /\ force' = cli_force_redownload
          /\ (cli_clean_resume => ledger' = NoLedger)]_vars

\* C28: an .mp3 file of the ID3 prefix followed by 1000 bytes is kept by
\* partition (force=false) and its item is classified existing; with such
\* files for items 1, 3, 5 and a 3-byte file for item 2 among 5 items,
\* existing has 3 items and to_download has 2.
C28_TestFileIsValid ==
    [][PartitionStep =>
        /\ \A p \in Parts :
              (fs[episodes[p]] = TestFile /\ Lower(Suffix(episodes[p])) = ".mp3") =>
                 /\ InSeq(p, existing')
                 /\ fs'[episodes[p]] = TestFile
        /\ ( /\ episodes = Distinct(5)
             /\ \A x \in {1, 3, 5} : fs[x] = TestFile
             /\ fs[2] = Tiny
             /\ fs[4] = NoFile )
           => (Len(existing') = 3 /\ Len(to_download') = 2)]_vars

\* C29: constructing a DownloadConfig is rejected when an episode number is
\* not positive, when final_episode < start_episode, or when
\* concurrent_downloads is below 1 or above 10; and no batch runs with a
\* concurrency limit of 0 (or any limit outside 1..10).
C29_ConfigRejected ==
    [][/\ (phase = "config" =>
              (( \/ start_episode <= 0
                 \/ final_episode <= 0
                 \/ final_episode < start_episode
                 \/ concurrent_downloads < 1
                 \/ concurrent_downloads > 10 )
               => (phase' = "rejected" /\ shown' = NoDisplay)))
       /\ (phase' = "running" =>
              /\ concurrent_downloads' # 0
              /\ concurrent_downloads' \in 1..10)]_vars

\* a configuration that is wrong in its concurrency limit only was rejected
C29_Witness ==
    /\ phase = "rejected"
    /\ start_episode = 1
    /\ final_episode = 10
    /\ concurrent_downloads = 0

\* the page that lists episode e, at 10 episodes per page
PageOf(e) == CHOOSE pg \in 1..e : (pg - 1) * 10 < e /\ e <= pg * 10

\* C30: for every accepted DownloadConfig, start_page is
\* (start_episode-1) div 10 + 1, final_page is (final_episode-1) div 10 + 1
\* and total_episodes is final_episode - start_episode + 1; start_page <=
\* final_page, every episode number of the range lies on a page of the page
\* range, and episodes 15..25 give pages 2..3 and 11 episodes.
C30_Pagination ==
    shown # NoDisplay =>
        /\ shown.start_page = (start_episode - 1) \div 10 + 1
        /\ shown.final_page = (final_episode - 1) \div 10 + 1
        /\ shown.total_episodes = final_episode - start_episode + 1
        /\ shown.total_episodes = Cardinality(start_episode..final_episode)
        /\ shown.start_page <= shown.final_page
        /\ \A e \in start_episode..final_episode :
              PageOf(e) \in shown.start_page..shown.final_page
        /\ (start_episode = 15 /\ final_episode = 25) =>
              shown = [total_episodes |-> 11, start_page |-> 2, final_page |-> 3]

\* the configuration of episodes 15..25 was accepted and displayed
C30_Witness ==
    /\ phase = "idle"
    /\ shown # NoDisplay
    /\ start_episode = 15
    /\ final_episode = 25

\* how often the pages of the walk that loaded deliver part x
Delivered(x) ==
    Cardinality(UNION {{<<pg, k>> : k \in {j \in 1..Len(site[pg]) : site[pg][j] = x}} :
                         pg \in {g \in start_page(TheConfig)..final_page(TheConfig) :
                                   site[g] # PageError}})

\* C31: get_all_episodes returns only parts of [start_episode,
\* final_episode], in ascending part order whatever the order on the pages,
\* and it returns every such part that a loaded page of the range delivers: a
\* page that fails is skipped and the remaining pages are still walked.
C31_ScrapeResult ==
    phase = "scraped" =>
        /\ \A k \in 1..Len(all_episodes) :
              start_episode <= all_episodes[k] /\ all_episodes[k] <= final_episode
        /\ \A k \in 1..(Len(all_episodes) - 1) : all_episodes[k] <= all_episodes[k + 1]
        /\ \A x \in start_episode..final_episode :
              Count(x, all_episodes) = Delivered(x)

\* page 1 failed and page 2 delivered episodes 12 and 11 in this order
C31_Witness ==
    /\ phase = "scraped"
    /\ start_episode = 1
    /\ final_episode = MaxScrapeEpisode
    /\ site[1] = PageError
    /\ site[2] = <<EpisodesPerPage + 2, EpisodesPerPage + 1>>
    /\ all_episodes = <<EpisodesPerPage + 1, EpisodesPerPage + 2>>

\* C32: when an attempt's timeout expires while attempts remain, the
\* transfer goes on to another attempt, both when it expires while the
\* response is awaited and when it expires while the body is streamed (the
\* stream of part p breaks after server[p].breakAt chunks).
C32_TimeoutRetried ==
    [][\A p \in Parts :
          /\ ( /\ pc[p] = "request"
               /\ StatusOf(p, attempts[p] + 1) = TimedOut
               /\ attempts[p] + 1 < retry_attempts
               /\ pc'[p] # pc[p] )
             => pc'[p] = "backoff"
          /\ ( /\ pc[p] = "streaming"
               /\ written[p] = server[p].breakAt
               /\ attempts[p] < retry_attempts
               /\ pc'[p] # pc[p] )
             => pc'[p] \in {"backoff", "request"}]_vars

\* C33: no single backoff wait of an attempt chain exceeds the cap of 30
\* seconds, for every attempt count in 1..10 and every kind of transient
\* failure.
C33_BackoffCapped ==
    \A p \in Parts : pc[p] = "backoff" => WaitOf(p) <= 30

InFlightStates == {"request", "backoff", "streaming"}

\* the lists agree with the terminal state of part p
ListedAs(p, state, done, failed, skipped) ==
    /\ (state = "completed" => InSeq(p, done) /\ ~InSeq(p, failed))
    /\ (state = "failed" => InSeq(p, failed) /\ ~InSeq(p, done))
    /\ (state = "skipped" => InSeq(p, skipped) /\ ~InSeq(p, done) /\ ~InSeq(p, failed))

\* C34 as stated: within one batch an item changes state only from queued to
\* in-flight, taking a permit, and from in-flight to completed or failed.
C34_TwoTerminalStates ==
    [][(phase = "running" /\ phase' \in {"running", "done"}) =>
          \A p \in Parts :
             pc'[p] # pc[p] =>
                \/ /\ pc[p] = "queued" /\ pc'[p] = "request"
                   /\ permits > 0 /\ permits' = permits - 1
                \/ /\ pc[p] \in InFlightStates
                   /\ pc'[p] \in InFlightStates \cup {"completed", "failed"}]_vars

\* C34 amended: within one batch an item changes state only from queued to
\* in-flight, taking a permit; from queued to skipped, when force is off and
\* its file passes the Validator at the moment its task has the permit; and
\* from in-flight to completed or failed. A terminal state is never left, and
\* the item is in the list of its terminal state and in no other.
C34_StateMachine ==
    [][(phase = "running" /\ phase' \in {"running", "done"}) =>
          \A p \in Parts :
             /\ pc'[p] # pc[p] =>
                  \/ /\ pc[p] = "queued" /\ pc'[p] = "request"
                     /\ permits > 0 /\ permits' = permits - 1
                  \/ /\ pc[p] = "queued" /\ pc'[p] = "skipped"
                     /\ permits > 0 /\ permits' = permits
                     /\ ~force /\ is_file_complete(fs, episodes[p])
                  \/ /\ pc[p] \in InFlightStates
                     /\ pc'[p] \in InFlightStates \cup {"completed", "failed"}
             /\ (pc[p] = "none" <=> ~InSeq(p, to_download))
             /\ ListedAs(p, pc'[p], successful_downloads', failed_downloads',
                         skipped_downloads')]_vars

\* two items of one file name: the first was transferred, the second found
\* the file complete when its task got the permit; a third item failed
C34_Witness ==
    /\ phase = "done"
    /\ Len(episodes) = 3
    /\ pc[1] = "completed"
    /\ pc[2] = "failed"
    /\ pc[3] = "skipped"
    /\ to_download = <<1, 2, 3>>

\* C35: with force=false a partition that returns puts every input item in
\* exactly one of existing and to_download, every item of invalid is in
\* to_download, an item with no file on disk is in to_download and not in
\* invalid, and for an empty directory all items are in to_download while
\* existing and invalid are empty.
C35_ExactlyOneList ==
    [][(PartitionStep /\ phase' \in {"running", "done"}) =>
          /\ \A p \in Parts :
                /\ Count(p, existing') + Count(p, to_download') = 1
                /\ (InSeq(p, invalid') => InSeq(p, to_download'))
                /\ (~Exists(fs, episodes[p]) =>
                       InSeq(p, to_download') /\ ~InSeq(p, invalid'))
          /\ (\A x \in Names : ~Exists(fs, x)) =>
                /\ to_download' = [k \in Parts |-> k]
                /\ existing' = <<>>
                /\ invalid' = <<>>]_vars

\* five episodes were partitioned on an empty directory
C35_Witness ==
    /\ phase = "running" /\ ~force
    /\ episodes = Distinct(5)
    /\ \A x \in Names : ~Exists(fs, x)
    /\ to_download = <<1, 2, 3, 4, 5>>
    /\ existing = <<>>
    /\ invalid = <<>>
    /\ \A p \in Parts : pc[p] = "queued"

\* C36: at the moment an item is reported as downloaded and recorded in the
\* completed set and the ledger, its file passes the Validator.
C36_DownloadedIsValid ==
    [][\A p \in Parts :
          (pc[p] # "completed" /\ pc'[p] = "completed") =>
             /\ InSeq(p, successful_downloads')
             /\ episodes[p] \in completed_files'
             /\ is_file_complete(fs', episodes[p])]_vars

\* C37: a transfer that fails before it has opened its destination (every
\* request of the attempt chain failed) leaves the file that was at the
\* destination as it was.
C37_FailedStartKeepsFile ==
    [][\A p \in Parts :
          (pc[p] \in {"request", "backoff"} /\ pc'[p] = "failed") =>
             fs'[episodes[p]] = fs[episodes[p]]]_vars

Entries(doc) == ListToSet(load_resume_state(doc))

\* C38: a save of the batch that succeeds keeps every entry the ledger file
\* held before it whose file still exists and passes the Validator, also the
\* entries of files that belong to no item of the batch.
C38_SaveKeepsEntries ==
    [][(phase = "running" /\ ledger' # ledger /\ last_save' = "ok") =>
          \A x \in Entries(ledger) :
             is_file_complete(fs', x) => x \in Entries(ledger')]_vars

\* tasks inside `async with self._semaphore` or sleeping there
MaterialsInside == {m \in Mats : mpc[m] \in {"request", "backoff", "reading"}}

\* every permit taken is accounted for by a task that is inside its gate
GateAccounting ==
    /\ phase \in {"running", "done"} =>
          permits = concurrent_downloads - Cardinality(InFlight)
    /\ (\E m \in Mats : mpc[m] # "none") =>
          material_permits = MaterialLimit - Cardinality(MaterialsInside)
    /\ Cardinality(holders) <= max_concurrent
    /\ \A p \in Parts : Ep(p) \in holders => pc[p] \in {"request", "backoff"}
    /\ \A m \in Mats : Mat(m) \in holders => mpc[m] \in {"request", "backoff"}

\* the batch has returned, the materials are through, all permits are back
GatesReturned ==
    /\ phase = "done"
    /\ \A p \in ListToSet(to_download) : pc[p] \in Terminal
    /\ \A m \in Mats : mpc[m] \in {"done", "failed"}
    /\ permits = concurrent_downloads
    /\ material_permits = MaterialLimit
    /\ holders = {}

\* C39: when every request and every sleep ends, a running batch beside the
\* course-material downloads resolves every item of to_download and returns,
\* and every permit of the three gates that a task took is given back, after
\* a failure and after a backoff wait as well; no gate ever holds more tasks
\* than its limit.
C39_GatesReleased ==
    /\ []GateAccounting
    /\ (phase = "running") ~> GatesReturned

\* the client's gate is full of episode and material requests, one of them
\* asleep inside it, while another material waits for it
C39_Witness ==
    /\ Cardinality(holders) = max_concurrent
    /\ \E p \in Parts : Ep(p) \in holders /\ pc[p] = "backoff"
    /\ \E m \in Mats : Mat(m) \in holders
    /\ \E m \in Mats : mpc[m] = "request" /\ Mat(m) \notin holders

\* C40: no two transfers of a batch that are in flight at the same instant
\* have their destination file open for writing at the same path, whatever
\* list the scraper supplied (two items may carry the same audio file name).
C40_OneWriterPerPath ==
    \A p, q \in Parts :
       (p # q /\ pc[p] = "streaming" /\ pc[q] = "streaming") =>
          episodes[p] # episodes[q]

====
